---- MODULE Spec2Model ----
(***************************************************************************)
(* Model of the authenticated access layer of the EPIAS dashboard:         *)
(*   src/src/api/auth.py    TGTManager  (ticket cache and refresh)         *)
(*   src/src/api/epias.py   EpiasClient (request with one retry)           *)
(*   src/src/data/models.py, src/src/data/fetchers.py (range validation)   *)
(*   src/src/dashboard/pages/*.py (per-organisation fan-out)               *)
(*                                                                         *)
(* Requests of several callers share one client and one TGTManager.  A     *)
(* caller is suspended only while a network call is outstanding, so every  *)
(* action below runs from one network boundary to the next.                *)
(***************************************************************************)
EXTENDS Integers, Sequences, FiniteSets, TLC

VARIABLES
    now,          \* time.time(), in seconds
    token,        \* TGTManager._token
    expires_at,   \* TGTManager._expires_at
    obtainedAt,   \* history: the time the cached ticket was received
    lastAuth,     \* history: the latest answer of the authentication endpoint
    pc,           \* per caller: position inside EpiasClient._request
    req,          \* per caller: (method, path, json) of the running call
    sent,         \* per caller: the HTTP attempts made, with their TGT header
    age,          \* per caller: history, age of the ticket at the last attempt
    resp,         \* per caller: the responses received, in order
    forced,       \* per caller: number of current(force_refresh=True) calls
    authPosts,    \* per caller: number of POSTs to AUTH_URL made by the call
    outcome,      \* per caller: what _request returned or raised
    fPhase,       \* DataFetcher.fetch_*: position inside the running method
    fMethod,      \* the fetch method running
    fStart,       \* its start_date
    fEnd,         \* its end_date
    fCalls,       \* calls it has made to self.client
    fOutcome,     \* what it returned or raised
    bPhase,       \* _gather_generation / _fetch_market_data_for_orgs: position
    bDataset,     \* which per-organisation fetch the batch runs
    bOrgs,        \* org_ids
    bTask,        \* per task (index of org_ids): its state
    bPair,        \* per task: the (oid, df) pair it returned
    stErrors,     \* the organisations reported with st.error, in order
    bResult,      \* the dictionary the batch returned
    gPhase,       \* get_paginated under a fetch method: position
    gMethod,      \* the fetch method that called it
    gPages,       \* the server's records for the request, as it pages them
    gMeta,        \* whether the server's envelopes carry page metadata
    gPage,        \* number of the page requested last
    gAcc,         \* the page contents received so far, in page order
    gCalls,       \* calls made to the HTTP client
    gOutcome,     \* what get_paginated returned or raised
    gFetch,       \* what the fetch method returned or raised
    nPhase,       \* DataProcessor: position of the running normalizer
    nKind,        \* the normalizer called
    nData,        \* its argument(s)
    nRecords,     \* its records list, as handed to pd.DataFrame
    nLog,         \* the log events it emitted
    nOut,         \* what it returned or raised
    kPhase,       \* a DataFetcher method made of several sub-fetches: position
    kMethod,      \* the method running
    kSub,         \* per sub-fetch: its state and what it ended with
    kOut          \* what the method returned or raised

authVars   == <<now, token, expires_at, obtainedAt, lastAuth>>
clientVars == <<pc, req, sent, age, resp, forced, authPosts, outcome>>
fetchVars  == <<fPhase, fMethod, fStart, fEnd, fCalls, fOutcome>>
batchVars  == <<bPhase, bDataset, bOrgs, bTask, bPair, stErrors, bResult>>
pageVars   == <<gPhase, gMethod, gPages, gMeta, gPage, gAcc, gCalls, gOutcome, gFetch>>
normVars   == <<nPhase, nKind, nData, nRecords, nLog, nOut>>
compVars   == <<kPhase, kMethod, kSub, kOut>>
dataVars   == <<pageVars, normVars, compVars>>
vars       == <<authVars, clientVars, fetchVars, batchVars, dataVars>>

-----------------------------------------------------------------------------
(* Bounds of the model *)

Callers == {"c1", "c2"}

\* Dates are day numbers 0..MaxDay.
MaxDay == 3

\* A batch has at most MaxOrgs organisations, drawn from 1..NumOrgIds.
MaxOrgs == 3
NumOrgIds == 3

-----------------------------------------------------------------------------
(* Constants of the program *)

TTL_SECONDS == 2 * 60 * 60
REFRESH_MARGIN == 60
BASE == "https://seffaflik.epias.com.tr/electricity-service/v1"

None == "None"
NoToken == <<>>

\* Texts are sequences of characters.
Prefix == <<"T", "G", "T", "-">>
Ticket1 == Prefix \o <<"1">>
Ticket2 == Prefix \o <<"2">>

\* What the authentication endpoint may answer.
AuthAnswers ==
    {[status |-> 200, text |-> Ticket1],
     [status |-> 200, text |-> <<" ">> \o Ticket2 \o <<"\n">>],
     [status |-> 200, text |-> <<"T", "G", "T">>],
     [status |-> 304, text |-> Ticket1],
     [status |-> 500, text |-> <<"E", "R", "R">>]}

\* What a data endpoint may answer.  Bodies are opaque to the client: the
\* answer to the k-th attempt of a call carries the k-th body.
DataStatuses == {200, 304, 401, 404, 406, 500}
Bodies == <<"b1", "b2", "b3">>

\* The call each caller makes: get(path, **params) or post(path, **payload).
CallOf(p) ==
    IF p = "c1" THEN [method |-> "GET", path |-> "/a", json |-> "q1"]
                ELSE [method |-> "POST", path |-> "/b", json |-> "q2"]

NoCall == [method |-> None, path |-> None, json |-> None]

\* The steps the clock makes between two events.
ClockSteps == {TTL_SECONDS - REFRESH_MARGIN - 1, TTL_SECONDS - REFRESH_MARGIN}
MaxClock == TTL_SECONDS

-----------------------------------------------------------------------------
(* Pure helpers *)

IsSpace(c) == c \in {" ", "\n", "\t"}

RECURSIVE LStrip(_)
LStrip(s) == IF s # <<>> /\ IsSpace(Head(s)) THEN LStrip(Tail(s)) ELSE s

RECURSIVE RStrip(_)
RStrip(s) ==
    IF s # <<>> /\ IsSpace(s[Len(s)]) THEN RStrip(SubSeq(s, 1, Len(s) - 1)) ELSE s

\* str.strip()
Strip(s) == RStrip(LStrip(s))

\* str.startswith(prefix)
StartsWith(s, prefix) ==
    Len(s) >= Len(prefix) /\ SubSeq(s, 1, Len(prefix)) = prefix

\* requests.Response.raise_for_status(): raises HTTPError on 4xx and 5xx.
RaisesForStatus(status) == 400 <= status /\ status < 600

\* requests.Response.json(): the parsed body.
Json(body) == <<"json", body>>

-----------------------------------------------------------------------------
(* TGTManager *)

\* Mutants of NeedsRefresh: a refresh on every call, and force_refresh ignored.
NeedsRefreshAlways(force_refresh, t, exp) == TRUE
NeedsRefreshIgnoresForce(force_refresh, t, exp) == t >= exp

\* current(): the condition under which a new ticket is requested.
NeedsRefresh(force_refresh, t, exp) == force_refresh \/ t >= exp

\* Mutant of NewExpiry: the early-refresh margin left out.
NewExpiryNoMargin(t) == t + TTL_SECONDS

\* current(): the expiry cached with a new ticket.
NewExpiry(t) == t + TTL_SECONDS - REFRESH_MARGIN

\* Mutant of request_new_token: whatever the endpoint answers is the ticket.
request_new_token_unchecked(status, text) ==
    [ok |-> TRUE, exc |-> None, token |-> Strip(text)]

\* Mutant of request_new_token: the prefix of the text is not tested.
request_new_token_any_text(status, text) ==
    IF RaisesForStatus(status)
    THEN [ok |-> FALSE, exc |-> "HTTPError", token |-> NoToken]
    ELSE [ok |-> TRUE, exc |-> None, token |-> Strip(text)]

\* _request_new_token(), from the answer of the authentication endpoint on.
request_new_token(status, text) ==
    IF RaisesForStatus(status)
    THEN [ok |-> FALSE, exc |-> "HTTPError", token |-> NoToken]
    ELSE LET tok == Strip(text) IN
         IF ~StartsWith(tok, Prefix)
         THEN [ok |-> FALSE, exc |-> "ValueError", token |-> NoToken]
         ELSE [ok |-> TRUE, exc |-> None, token |-> tok]

-----------------------------------------------------------------------------
(* EpiasClient *)

\* Mutants of IsAuthFailure: 406 not handled, and every failure status
\* answered by a refresh and a retry.
IsAuthFailureOnly401(status) == status = 401
IsAuthFailureAnyError(status) == 400 <= status

\* The statuses answered by a forced refresh and a retry.
IsAuthFailure(status) == status \in {401, 406}

\* Mutant of FinalResp: the retry's response not assigned to resp.
FirstResp(rs) == rs[1]

\* The response _request ends with: resp is reassigned by the retry.
FinalResp(rs) == rs[Len(rs)]

NoOutcome == [kind |-> "none", exc |-> None, origin |-> None, status |-> 0,
              body |-> None, value |-> <<>>]
Returned(v) == [kind |-> "return", exc |-> None, origin |-> None, status |-> 0,
                body |-> None, value |-> v]
Raised(exc, origin, status, body) ==
    [kind |-> "raise", exc |-> exc, origin |-> origin, status |-> status,
     body |-> body, value |-> <<>>]

Url(c) == <<BASE, c.path>>

\* Mutant of Send: the header keeps the ticket that was cached before.
SendCached(p, c, tgt, tgtAge, nextPc) ==
    /\ sent' = [sent EXCEPT ![p] =
                  Append(@, [method |-> c.method, url |-> Url(c),
                             json |-> c.json, tgt |-> token])]
    /\ age' = [age EXCEPT ![p] = tgtAge]
    /\ pc' = [pc EXCEPT ![p] = nextPc]

\* session.request(method, url, headers=headers, timeout=30, **kwargs)
Send(p, c, tgt, tgtAge, nextPc) ==
    /\ sent' = [sent EXCEPT ![p] =
                  Append(@, [method |-> c.method, url |-> Url(c),
                             json |-> c.json, tgt |-> tgt])]
    /\ age' = [age EXCEPT ![p] = tgtAge]
    /\ pc' = [pc EXCEPT ![p] = nextPc]

\* tgt_mgr.current(force_refresh) up to its return or to its POST to AUTH_URL,
\* followed, when it returns, by the session.request that carries the ticket.
current(p, c, force_refresh, authPc, nextPc) ==
    IF NeedsRefresh(force_refresh, now, expires_at)
    THEN /\ pc' = [pc EXCEPT ![p] = authPc]
         /\ authPosts' = [authPosts EXCEPT ![p] = @ + 1]
         /\ UNCHANGED <<sent, age>>
    ELSE /\ Send(p, c, token, now - obtainedAt, nextPc)
         /\ UNCHANGED authPosts

\* _request(method, path, **kwargs): headers are built with current().
Start(p) ==
    /\ pc[p] = "idle"
    /\ req' = [req EXCEPT ![p] = CallOf(p)]
    /\ current(p, CallOf(p), FALSE, "auth1", "sent1")
    /\ UNCHANGED <<authVars, resp, forced, outcome>>
    /\ UNCHANGED <<fetchVars, batchVars, dataVars>>

\* The authentication endpoint answers: current() caches and returns the new
\* ticket and the pending attempt is sent, or _request_new_token raises.
AuthReply(p, status, text) ==
    /\ pc[p] \in {"auth1", "auth2"}
    /\ lastAuth' = [status |-> status, text |-> text]
    /\ LET r == request_new_token(status, text) IN
       IF r.ok
       THEN /\ token' = r.token
            /\ expires_at' = NewExpiry(now)
            /\ obtainedAt' = now
            /\ Send(p, req[p], r.token, 0,
                    IF pc[p] = "auth1" THEN "sent1" ELSE "sent2")
            /\ UNCHANGED <<now, outcome>>
       ELSE /\ outcome' = [outcome EXCEPT ![p] = Raised(r.exc, "auth", status, None)]
            /\ pc' = [pc EXCEPT ![p] = "done"]
            /\ UNCHANGED <<now, token, expires_at, obtainedAt, sent, age>>
    /\ UNCHANGED <<req, resp, forced, authPosts, fetchVars, batchVars, dataVars>>

\* A data endpoint answers an attempt.
DataReply(p, status) ==
    /\ pc[p] \in {"sent1", "sent2"}
    /\ resp' = [resp EXCEPT ![p] =
                  Append(@, [status |-> status, body |-> Bodies[Len(@) + 1]])]
    /\ IF pc[p] = "sent1" /\ IsAuthFailure(status)
       THEN /\ forced' = [forced EXCEPT ![p] = @ + 1]
            /\ current(p, req[p], TRUE, "auth2", "sent2")
            /\ UNCHANGED outcome
       ELSE /\ outcome' = [outcome EXCEPT ![p] =
                   IF RaisesForStatus(FinalResp(resp'[p]).status)
                   THEN Raised("HTTPError", "data", FinalResp(resp'[p]).status,
                               FinalResp(resp'[p]).body)
                   ELSE Returned(Json(FinalResp(resp'[p]).body))]
            /\ pc' = [pc EXCEPT ![p] = "done"]
            /\ UNCHANGED <<sent, age, forced, authPosts>>
    /\ UNCHANGED <<authVars, req, fetchVars, batchVars, dataVars>>

\* The caller takes the result; the caller may call again.
Finish(p) ==
    /\ pc[p] = "done"
    /\ pc' = [pc EXCEPT ![p] = "idle"]
    /\ req' = [req EXCEPT ![p] = NoCall]
    /\ sent' = [sent EXCEPT ![p] = <<>>]
    /\ age' = [age EXCEPT ![p] = 0]
    /\ resp' = [resp EXCEPT ![p] = <<>>]
    /\ forced' = [forced EXCEPT ![p] = 0]
    /\ authPosts' = [authPosts EXCEPT ![p] = 0]
    /\ outcome' = [outcome EXCEPT ![p] = NoOutcome]
    /\ UNCHANGED <<authVars, fetchVars, batchVars, dataVars>>

\* Time passes.
Tick(d) ==
    /\ now + d <= MaxClock
    /\ now' = now + d
    /\ UNCHANGED <<token, expires_at, obtainedAt, lastAuth, clientVars, fetchVars,
                   batchVars, dataVars>>

-----------------------------------------------------------------------------
(* Request models and DataFetcher *)

\* The request model each date-ranged fetch method builds.
RequestClass(m) ==
    CASE m = "fetch_organizations"       -> "OrganizationListRequest"
      [] m = "fetch_ptf_data"            -> "MarketDataRequest"
      [] m = "fetch_smf_data"            -> "MarketDataRequest"
      [] m = "fetch_bilateral_contracts" -> "BilateralContractsRequest"
      [] m = "fetch_generation_data"     -> "GenerationDataRequest"
      [] m = "fetch_kgup_data"           -> "OrganizationRequest"
      [] m = "fetch_consumption_data"    -> "ConsumptionDataRequest"

FetchMethods == {"fetch_organizations", "fetch_ptf_data", "fetch_smf_data",
                 "fetch_bilateral_contracts", "fetch_generation_data",
                 "fetch_kgup_data", "fetch_consumption_data"}

\* The base class of each request model.
BaseOf(cls) ==
    CASE cls = "OrganizationListRequest"   -> "DateRangeRequest"
      [] cls = "MarketDataRequest"         -> "DateRangeRequest"
      [] cls = "BilateralContractsRequest" -> "DateRangeRequest"
      [] cls = "ConsumptionDataRequest"    -> "DateRangeRequest"
      [] cls = "GenerationDataRequest"     -> "OrganizationRequest"
      [] cls = "OrganizationRequest"       -> "DateRangeRequest"
      [] cls = "DateRangeRequest"          -> "BaseRequest"
      [] cls = "UEVCBListRequest"          -> "BaseRequest"
      [] cls = "BaseRequest"               -> "BaseModel"

RECURSIVE IsSubclass(_, _)
IsSubclass(cls, base) ==
    \/ cls = base
    \/ cls # "BaseModel" /\ IsSubclass(BaseOf(cls), base)

\* datetime values are seconds since day 0; time.max is the last second of a day.
SecondsPerDay == 24 * 60 * 60
TimeMin == 0
TimeMax == SecondsPerDay - 1
Combine(d, t) == d * SecondsPerDay + t

\* Mutant of validate_date_range: the comparison reversed.
validate_date_range_reversed(v, values) ==
    "startDate" \in DOMAIN values /\ v > values["startDate"]

\* DateRangeRequest.validate_date_range(v, values): TRUE when it raises.
validate_date_range(v, values) ==
    "startDate" \in DOMAIN values /\ v < values["startDate"]

\* Building the request model of cls: TRUE when pydantic raises ValidationError.
RequestRejected(cls, startDate, endDate) ==
    /\ IsSubclass(cls, "DateRangeRequest")
    /\ validate_date_range(endDate, [startDate |-> startDate])

\* Calls to self.client a fetch method makes once its request is built.
ClientCalls(m) == IF m = "fetch_bilateral_contracts" THEN 2 ELSE 1

Days == 0..MaxDay

\* A fetch method is called: it builds its request and, unless that raises,
\* calls the client.
FetchBegin(m, start_date, end_date) ==
    /\ fPhase = "idle"
    /\ fMethod' = m
    /\ fStart' = start_date
    /\ fEnd' = end_date
    /\ IF RequestRejected(RequestClass(m), Combine(start_date, TimeMin),
                          Combine(end_date, TimeMax))
       THEN /\ fOutcome' = "ValidationError"
            /\ fPhase' = "done"
            /\ fCalls' = 0
       ELSE /\ fOutcome' = None
            /\ fPhase' = "calling"
            /\ fCalls' = ClientCalls(m)
    /\ UNCHANGED <<authVars, clientVars, batchVars, dataVars>>

\* The client returns or raises APIError, which the method logs and re-raises.
FetchEnd(result) ==
    /\ fPhase = "calling"
    /\ fOutcome' = result
    /\ fPhase' = "done"
    /\ UNCHANGED <<fMethod, fStart, fEnd, fCalls, authVars, clientVars, batchVars, dataVars>>

FetchReset ==
    /\ fPhase = "done"
    /\ fPhase' = "idle"
    /\ fMethod' = None
    /\ fStart' = 0
    /\ fEnd' = 0
    /\ fCalls' = 0
    /\ fOutcome' = None
    /\ UNCHANGED <<authVars, clientVars, batchVars, dataVars>>

-----------------------------------------------------------------------------
(* Per-organisation fan-out of the dashboard pages *)

Datasets == {"realtime", "kgup", "market"}

\* The DataFetcher method each page awaits for one organisation.
BatchMethod(dataset) ==
    CASE dataset = "realtime" -> "fetch_generation_data"
      [] dataset = "kgup"     -> "fetch_kgup_data"
      [] dataset = "market"   -> "fetch_market_data"

\* The methods DataFetcher defines.
DataFetcherMethods ==
    FetchMethods \cup {"fetch_power_plants", "fetch_uevcb_list",
                       "fetch_dashboard_data", "fetch_organization_overview"}

\* Tables are sequences of rows; pd.DataFrame() is the empty one.
EmptyTable == <<>>
Tables == {EmptyTable, <<"row">>}

\* ValueError(f"Unexpected TGT format: ...") of TGTManager._request_new_token,
\* told from other ValueErrors by its message.
TGTFormatError == "ValueError: Unexpected TGT format"

\* What awaiting a fetch can raise, all of them subclasses of Exception: the
\* errors of the data request and the errors of acquiring the ticket for it.
FetchErrors == {"APIError", "HTTPError", TGTFormatError}
ExceptionClasses == FetchErrors \cup {"AttributeError", "ValueError", "ValidationError"}

Running == [state |-> "running", df |-> EmptyTable, exc |-> None]
FetchReturned(df) == [state |-> "returned", df |-> df, exc |-> None]
FetchRaised(exc) == [state |-> "raised", df |-> EmptyTable, exc |-> exc]

\* What awaiting the fetch of one organisation can end with.
FetchResults(dataset) ==
    IF BatchMethod(dataset) \notin DataFetcherMethods
    THEN {FetchRaised("AttributeError")}
    ELSE {FetchReturned(df) : df \in Tables} \cup {FetchRaised(e) : e \in FetchErrors}

AllFetchResults == UNION {FetchResults(d) : d \in Datasets}

NoPair == <<0, EmptyTable>>

\* Mutant of one: the handler catches APIError alone.
oneCatchesAPIError(oid, r) ==
    IF r.state = "raised"
    THEN IF r.exc = "APIError"
         THEN [raised |-> FALSE, pair |-> <<oid, EmptyTable>>, report |-> TRUE]
         ELSE [raised |-> TRUE, pair |-> NoPair, report |-> FALSE]
    ELSE [raised |-> FALSE, pair |-> <<oid, r.df>>, report |-> FALSE]

\* Mutant of one: the pair is keyed by the id after the organisation's.
oneKeyedByNext(oid, r) ==
    [raised |-> FALSE,
     pair |-> <<(oid % NumOrgIds) + 1, IF r.state = "raised" THEN EmptyTable ELSE r.df>>,
     report |-> r.state = "raised"]

\* _one(oid) / _fetch(org_id), from the end of the awaited fetch on:
\* try ... return oid, df / except Exception: st.error(...); return oid, DataFrame()
one(oid, r) ==
    IF r.state = "raised"
    THEN IF r.exc \in ExceptionClasses
         THEN [raised |-> FALSE, pair |-> <<oid, EmptyTable>>, report |-> TRUE]
         ELSE [raised |-> TRUE, pair |-> NoPair, report |-> FALSE]
    ELSE [raised |-> FALSE, pair |-> <<oid, r.df>>, report |-> FALSE]

\* {oid: df for oid, df in results}: a later pair replaces an earlier one.
ToDict(results) ==
    [o \in {results[i][1] : i \in DOMAIN results} |->
        LET last == CHOOSE i \in DOMAIN results :
                        /\ results[i][1] = o
                        /\ \A j \in DOMAIN results : results[j][1] = o => j <= i
        IN  results[last][2]]

OrgIds == 1..NumOrgIds

\* org_ids: the distinct ids of the organisations selected in the sidebar.
OrgLists ==
    UNION {{l \in [1..n -> OrgIds] : \A i, j \in 1..n : l[i] = l[j] => i = j} :
           n \in 1..MaxOrgs}

\* tasks = [_one(oid) for oid in org_ids]; asyncio.gather(*tasks) starts them.
BatchStart(dataset, orgs) ==
    /\ bPhase = "idle"
    /\ bPhase' = "gather"
    /\ bDataset' = dataset
    /\ bOrgs' = orgs
    /\ bTask' = [i \in DOMAIN orgs |-> Running]
    /\ bPair' = [i \in DOMAIN orgs |-> NoPair]
    /\ UNCHANGED <<stErrors, bResult, authVars, clientVars, fetchVars, dataVars>>

\* The fetch awaited by task i ends; tasks end in any order.
TaskDone(i, r) ==
    /\ bPhase = "gather"
    /\ i \in DOMAIN bTask
    /\ bTask[i].state = "running"
    /\ r \in FetchResults(bDataset)
    /\ bTask' = [bTask EXCEPT ![i] = r]
    /\ LET o == one(bOrgs[i], r) IN
       IF o.raised
       THEN /\ bPhase' = "raised"
            /\ UNCHANGED <<bPair, stErrors>>
       ELSE /\ bPair' = [bPair EXCEPT ![i] = o.pair]
            /\ stErrors' = IF o.report THEN Append(stErrors, bOrgs[i]) ELSE stErrors
            /\ UNCHANGED bPhase
    /\ UNCHANGED <<bDataset, bOrgs, bResult, authVars, clientVars, fetchVars, dataVars>>

\* gather returns the pairs in task order and the dictionary is built.
BatchReturn ==
    /\ bPhase = "gather"
    /\ \A i \in DOMAIN bTask : bTask[i].state # "running"
    /\ bResult' = ToDict(bPair)
    /\ bPhase' = "returned"
    /\ UNCHANGED <<bDataset, bOrgs, bTask, bPair, stErrors, authVars, clientVars,
                   fetchVars, dataVars>>

BatchReset ==
    /\ bPhase \in {"returned", "raised"}
    /\ bPhase' = "idle"
    /\ bDataset' = None
    /\ bOrgs' = <<>>
    /\ bTask' = <<>>
    /\ bPair' = <<>>
    /\ stErrors' = <<>>
    /\ bResult' = <<>>
    /\ UNCHANGED <<authVars, clientVars, fetchVars, dataVars>>

-----------------------------------------------------------------------------
(* JSON values, as Python sees them *)

\* A JSON value with its Python type k and its payload: the number n, the
\* string s as the sequence of its lexical tokens, the list l as a sequence,
\* the dict d as a function of its keys.
Num(n)  == [k |-> "num", n |-> n]
Str(s)  == [k |-> "str", s |-> s]
PyNone  == [k |-> "null"]
List(l) == [k |-> "list", l |-> l]
Dict(d) == [k |-> "dict", d |-> d]

EmptyStr == Str(<<>>)

\* bool(x): zero, None and empty containers are false.
Truthy(x) ==
    CASE x.k = "num"  -> x.n # 0
      [] x.k = "null" -> FALSE
      [] x.k = "str"  -> x.s # <<>>
      [] x.k = "list" -> x.l # <<>>
      [] x.k = "dict" -> DOMAIN x.d # {}

\* x or y
Or(x, y) == IF Truthy(x) THEN x ELSE y

\* d.get(key, default) on a dict d
Get(d, key, default) == IF key \in DOMAIN d.d THEN d.d[key] ELSE default

\* key in x: membership for a dict, a list and a string; TypeError otherwise.
Contains(x, key) ==
    CASE x.k = "dict" -> IF key \in DOMAIN x.d THEN "True" ELSE "False"
      [] x.k = "list" -> IF \E i \in DOMAIN x.l : x.l[i] = Str(<<key>>)
                         THEN "True" ELSE "False"
      [] x.k = "str"  -> IF \E i \in DOMAIN x.s : x.s[i] = key
                         THEN "True" ELSE "False"
      [] OTHER        -> "TypeError"

\* The numerals that occur as string tokens, with their values.
Numerals == {"0", "7"}
NumeralValue(tok) == IF tok = "7" THEN 7 ELSE 0

\* float(x) and int(x): the number, the number a numeric string spells, or an
\* exception.  Numbers are kept as integers.
float(x) ==
    CASE x.k = "num" -> [exc |-> None, v |-> x.n]
      [] x.k = "str" ->
            IF Len(x.s) = 1 /\ x.s[1] \in Numerals
            THEN [exc |-> None, v |-> NumeralValue(x.s[1])]
            ELSE [exc |-> "ValueError", v |-> 0]
      [] OTHER -> [exc |-> "TypeError", v |-> 0]

int(x) == float(x)

-----------------------------------------------------------------------------
(* pandas timestamps *)

\* pd.NaT and pd.Timestamp: a day number and an hour of the day.
NaT == [nat |-> TRUE, day |-> 0, hour |-> 0]
Timestamp(d, h) == [nat |-> FALSE, day |-> d, hour |-> h]

\* pd.notna(dt)
notna(dt) == ~dt.nat

\* The date and time tokens of the timestamp strings, with their values.
DateTokens == {"2024-01-01", "2024-01-02", "2024-01-03"}
DayOf(tok) ==
    CASE tok = "2024-01-01" -> 1
      [] tok = "2024-01-02" -> 2
      [] tok = "2024-01-03" -> 3

TimeTokens == {"00:00:00", "05:00:00", "23:00:00"}
HourOfToken(tok) ==
    CASE tok = "00:00:00" -> 0
      [] tok = "05:00:00" -> 5
      [] tok = "23:00:00" -> 23

\* pd.to_datetime(s): an ISO date, alone or followed by "T" and a time.
\* A result of <<>> stands for the exception it raises.
to_datetime(s) ==
    IF Len(s) = 1 /\ s[1] \in DateTokens
    THEN <<Timestamp(DayOf(s[1]), 0)>>
    ELSE IF /\ Len(s) = 3
            /\ s[1] \in DateTokens
            /\ s[2] \in {"T", " "}
            /\ s[3] \in TimeTokens
         THEN <<Timestamp(DayOf(s[1]), HourOfToken(s[3]))>>
         ELSE IF s = <<>> THEN <<NaT>> ELSE <<>>

\* pd.to_datetime(s, format="%Y-%m-%d"): the whole string must be a date.
to_datetime_ymd(s) ==
    IF Len(s) = 1 /\ s[1] \in DateTokens
    THEN <<Timestamp(DayOf(s[1]), 0)>>
    ELSE IF s = <<>> THEN <<NaT>> ELSE <<>>

\* DataProcessor.parse_datetime(dt_str): every exception becomes NaT.
parse_datetime(dt_str) ==
    LET in_T == Contains(dt_str, "T")
        r == IF in_T = "True" /\ dt_str.k = "str" THEN to_datetime(dt_str.s)
             ELSE IF in_T = "False" /\ dt_str.k = "str"
                  THEN to_datetime_ymd(dt_str.s)
                  ELSE <<>>
    IN  IF r = <<>> THEN NaT ELSE r[1]

\* dt.replace(hour=h): ValueError unless 0 <= h <= 23; NaT stays NaT.
\* A result of <<>> stands for the exception.
replace_hour(dt, h) ==
    IF dt.nat THEN <<NaT>>
    ELSE IF 0 <= h /\ h <= 23 THEN <<Timestamp(dt.day, h)>> ELSE <<>>

\* The order sort_values puts timestamps in: ascending, NaT last.
TsLeq(a, b) ==
    \/ b.nat
    \/ ~a.nat /\ (a.day < b.day \/ (a.day = b.day /\ a.hour <= b.hour))

-----------------------------------------------------------------------------
(* DataProcessor *)

\* A pandas DataFrame: the name of its index, its columns and its rows.  The
\* rows of a frame indexed by "datetime" keep that value in their datetime field.
DataFrame(index, columns, rows) ==
    [index |-> index, columns |-> columns, rows |-> rows]

\* pd.DataFrame(columns=[...]) and pd.DataFrame([])
EmptyFrame(columns) == DataFrame("RangeIndex", columns, <<>>)

\* The result of a step that may raise: exc is None or the exception class.
Ok(v) == [exc |-> None, v |-> v]
Err(exc) == [exc |-> exc, v |-> PyNone]

\* response[key1][key2] once `key1 in response and key2 in response[key1]`
\* holds: indexing a list or a string with a key raises TypeError.
Nested(response, key1, key2) ==
    IF response.d[key1].k = "dict"
    THEN Ok(response.d[key1].d[key2])
    ELSE Err("TypeError")

\* DataProcessor.extract_content(response)
extract_content(response) ==
    LET rest == IF Truthy(response) THEN Ok(List(<<response>>)) ELSE Ok(List(<<>>))
    IN  IF response.k = "list" THEN Ok(response)
        ELSE IF response.k = "dict"
        THEN LET in_body == IF "body" \in DOMAIN response.d
                            THEN Contains(response.d["body"], "content")
                            ELSE "False"
             IN  IF in_body = "TypeError" THEN Err("TypeError")
                 ELSE IF in_body = "True" THEN Nested(response, "body", "content")
                 ELSE IF "content" \in DOMAIN response.d THEN Ok(response.d["content"])
                 ELSE IF "items" \in DOMAIN response.d THEN Ok(response.d["items"])
                 ELSE rest
        ELSE rest

\* The first exception of a sequence of results, or their values concatenated.
RECURSIVE Concat(_)
Concat(results) ==
    IF results = <<>> THEN Ok(<<>>)
    ELSE IF Head(results).exc # None THEN Head(results)
    ELSE LET rest == Concat(Tail(results))
         IN  IF rest.exc # None THEN rest ELSE Ok(Head(results).v \o rest.v)

\* Mutant of Aliased: the fields are indexed instead of read with a default.
AliasedIndexed(item, key, fallback) ==
    IF key \in DOMAIN item.d /\ fallback \in DOMAIN item.d
    THEN float(Or(item.d[key], item.d[fallback]))
    ELSE Err("KeyError")

\* float(item.get(key, 0) or item.get(fallback, 0))
Aliased(item, key, fallback) ==
    float(Or(Get(item, key, Num(0)), Get(item, fallback, Num(0))))

\* The rows process_ptf_data appends for one dict item.
ptf_rows(item) ==
    LET dt == parse_datetime(Get(item, "date", EmptyStr))
        price == Aliased(item, "price", "value")
        hour == int(Get(item, "hour", Num(IF notna(dt) THEN dt.hour ELSE 0)))
    IN  IF price.exc # None THEN Err(price.exc)
        ELSE IF hour.exc # None THEN Err(hour.exc)
        ELSE Ok(<<[datetime |-> dt, price |-> price.v, hour |-> hour.v]>>)

\* The rows process_smf_data appends for one dict item.
smf_rows(item) ==
    LET dt == parse_datetime(Get(item, "date", EmptyStr))
        up == Aliased(item, "upRegulationPrice", "yalPrice")
        down == Aliased(item, "downRegulationPrice", "yatPrice")
    IN  IF up.exc # None THEN Err(up.exc)
        ELSE IF down.exc # None THEN Err(down.exc)
        ELSE Ok(<<[datetime |-> dt, up_price |-> up.v, down_price |-> down.v,
                   direction |-> Get(item, "systemDirection", EmptyStr)]>>)

\* Mutant of hourly_entry: the entry's hour is ignored and the row stays on the
\* parent timestamp.
hourly_entry_parent_time(dt, hour_data, valueKey) ==
    IF hour_data.k # "dict" THEN Err("AttributeError")
    ELSE LET value == float(Get(hour_data, valueKey, Num(0)))
         IN  IF value.exc # None THEN Err(value.exc)
             ELSE Ok([datetime |-> dt, value |-> value.v, hour_data |-> hour_data])

\* One entry of an hourly breakdown: the timestamp dt.replace(hour=int(
\* hour_data.get("hour", 0))) and the value float(hour_data.get(valueKey, 0)).
hourly_entry(dt, hour_data, valueKey) ==
    IF hour_data.k # "dict" THEN Err("AttributeError")
    ELSE LET hour == int(Get(hour_data, "hour", Num(0)))
             at == IF hour.exc = None THEN replace_hour(dt, hour.v) ELSE <<>>
             value == float(Get(hour_data, valueKey, Num(0)))
         IN  IF hour.exc # None THEN Err(hour.exc)
             ELSE IF at = <<>> THEN Err("ValueError")
             ELSE IF value.exc # None THEN Err(value.exc)
             ELSE Ok([datetime |-> at[1], value |-> value.v, hour_data |-> hour_data])

\* for hour_data in item[listKey]: the entries in order, or the first exception.
hourly_entries(dt, item, listKey, valueKey) ==
    LET l == item.d[listKey]
    IN  IF l.k # "list" THEN Err("TypeError")
        ELSE Concat([i \in DOMAIN l.l |->
                        LET e == hourly_entry(dt, l.l[i], valueKey)
                        IN  IF e.exc # None THEN e ELSE Ok(<<e.v>>)])

\* The rows process_generation_data appends for one dict item.
generation_rows(item) ==
    LET dt == parse_datetime(Get(item, "date", EmptyStr))
        Row(at, type, value) ==
            [datetime |-> at,
             power_plant |-> Get(item, "powerPlantName", EmptyStr),
             power_plant_id |-> Get(item, "powerPlantId", PyNone),
             type |-> type, value |-> value]
    IN  IF "hourlyGenerations" \in DOMAIN item.d
        THEN LET es == hourly_entries(dt, item, "hourlyGenerations", "generation")
             IN  IF es.exc # None THEN es
                 ELSE Ok([i \in DOMAIN es.v |->
                            Row(es.v[i].datetime,
                                Get(es.v[i].hour_data, "generationType", EmptyStr),
                                es.v[i].value)])
        ELSE LET value == Aliased(item, "generation", "value")
             IN  IF value.exc # None THEN Err(value.exc)
                 ELSE Ok(<<Row(dt, Get(item, "generationType", EmptyStr), value.v)>>)

\* The rows process_kgup_data appends for one dict item.
kgup_rows(item) ==
    LET dt == parse_datetime(Get(item, "date", EmptyStr))
        Row(at, value) ==
            [datetime |-> at,
             uevcb |-> Get(item, "uevcbName", EmptyStr),
             uevcb_id |-> Get(item, "uevcbId", PyNone),
             planned_generation |-> value]
    IN  IF "hourlyPlans" \in DOMAIN item.d
        THEN LET es == hourly_entries(dt, item, "hourlyPlans", "plannedGeneration")
             IN  IF es.exc # None THEN es
                 ELSE Ok([i \in DOMAIN es.v |-> Row(es.v[i].datetime, es.v[i].value)])
        ELSE LET value == Aliased(item, "plannedGeneration", "value")
             IN  IF value.exc # None THEN Err(value.exc)
                 ELSE Ok(<<Row(dt, value.v)>>)

\* The rows process_bilateral_contracts appends for one dict item of a side.
bilateral_rows(item, side) ==
    LET dt == parse_datetime(Get(item, "date", EmptyStr))
        quantity == Aliased(item, "quantity", "value")
    IN  IF quantity.exc # None THEN Err(quantity.exc)
        ELSE Ok(<<[datetime |-> dt, type |-> side,
                   contract_type |-> Get(item, "contractType", EmptyStr),
                   quantity |-> quantity.v]>>)

\* The rows process_consumption_data appends for one dict item.
consumption_rows(item) ==
    LET dt == parse_datetime(Get(item, "date", EmptyStr))
        value == Aliased(item, "consumption", "value")
    IN  IF value.exc # None THEN Err(value.exc)
        ELSE Ok(<<[datetime |-> dt,
                   province |-> Get(item, "province", EmptyStr),
                   district |-> Get(item, "district", EmptyStr),
                   profile_group |-> Get(item, "profileGroup", EmptyStr),
                   subscriber_type |-> Get(item, "subscriberType", EmptyStr),
                   value |-> value.v]>>)

\* for item in content: if isinstance(item, dict).  Iterating a dict or a string
\* yields strings, none of them a dict; a number or None is not iterable.
DictItems(content) ==
    CASE content.k = "list" -> Ok(SelectSeq(content.l, LAMBDA x : x.k = "dict"))
      [] content.k \in {"dict", "str"} -> Ok(<<>>)
      [] OTHER -> Err("TypeError")

\* The dict items a response holds, as the loop of a normalizer meets them.
DictsIn(data) ==
    LET content == extract_content(data)
        items == DictItems(content.v)
    IN  IF content.exc # None \/ items.exc # None THEN {}
        ELSE {items.v[i] : i \in DOMAIN items.v}

\* The records list a loop builds from its content, or the first exception.
\* rows_of maps each dict item to what the loop body appends for it.
Records(rows_of, content) ==
    LET items == DictItems(content)
    IN  IF items.exc # None THEN items
        ELSE Concat([i \in DOMAIN items.v |-> rows_of[items.v[i]]])

\* Mutant of sort_values: the rows stay in the order they were appended in.
sort_values_omitted(rows) == {rows}

\* df.sort_values("datetime"): ascending with NaT last.  The order of rows with
\* equal timestamps is left to the sorting algorithm, so every sorted
\* arrangement is a possible result.
sort_values(rows) ==
    LET n == Len(rows)
        sorted(q) == \A i, j \in 1..n :
                        i < j => TsLeq(rows[q[i]].datetime, rows[q[j]].datetime)
    IN  {[i \in 1..n |-> rows[q[i]]] : q \in {r \in Permutations(1..n) : sorted(r)}}

ProcessorRaised(exc) == Raised(exc, "processor", 0, None)

\* A run of a normalizer: the records list it built, when it got that far,
\* and what it returned or raised.
Run(records, out, log) == [records |-> records, out |-> out, log |-> log]

\* logger.info(f"Processed ... data: {len(df)} records"), the one log call of a
\* normalizer: it names no record and no field.
Processed(rows) == [level |-> "info", field |-> None, count |-> Len(rows)]

\* The body shared by the normalizers of one response: extract the content,
\* return early on an empty one, build the records, sort and index them.
\* guarded: whether sorting and indexing are under `if not df.empty`.
process(rows_of, emptyColumns, columns, guarded, data) ==
    LET content == extract_content(data)
        records == Records(rows_of, content.v)
    IN  IF content.exc # None THEN {Run(<<>>, ProcessorRaised(content.exc), <<>>)}
        ELSE IF ~Truthy(content.v)
        THEN {Run(<<>>, Returned(EmptyFrame(emptyColumns)), <<>>)}
        ELSE IF records.exc # None THEN {Run(<<>>, ProcessorRaised(records.exc), <<>>)}
        ELSE IF records.v = <<>>
        THEN IF guarded
             THEN {Run(<<>>, Returned(EmptyFrame(<<>>)), <<Processed(<<>>)>>)}
             ELSE {Run(<<>>, ProcessorRaised("KeyError"), <<>>)}
        ELSE {Run(records.v, Returned(DataFrame("datetime", columns, rows)),
                  <<Processed(rows)>>) :
                rows \in sort_values(records.v)}

process_ptf_data(data) ==
    process([item \in DictsIn(data) |-> ptf_rows(item)],
            <<"datetime", "price", "hour">>, <<"price", "hour">>,
            FALSE, data)

process_smf_data(data) ==
    process([item \in DictsIn(data) |-> smf_rows(item)],
            <<"datetime", "up_price", "down_price", "direction">>,
            <<"up_price", "down_price", "direction">>, FALSE, data)

process_generation_data(data) ==
    process([item \in DictsIn(data) |-> generation_rows(item)],
            <<"datetime", "power_plant", "type", "value">>,
            <<"power_plant", "power_plant_id", "type", "value">>, TRUE, data)

process_kgup_data(data) ==
    process([item \in DictsIn(data) |-> kgup_rows(item)],
            <<"datetime", "uevcb", "planned_generation">>,
            <<"uevcb", "uevcb_id", "planned_generation">>, TRUE, data)

process_consumption_data(data) ==
    process([item \in DictsIn(data) |-> consumption_rows(item)],
            <<"datetime", "province", "district", "profile_group", "value">>,
            <<"province", "district", "profile_group", "subscriber_type", "value">>,
            TRUE, data)

RECURSIVE Sum(_)
Sum(s) == IF s = <<>> THEN 0 ELSE Head(s) + Sum(Tail(s))

\* The distinct timestamps of a set in ascending order.
Ascending(S) ==
    CHOOSE s \in [1..Cardinality(S) -> S] :
        /\ \A i, j \in DOMAIN s : i < j => s[i] # s[j] /\ TsLeq(s[i], s[j])

\* df.pivot_table(index="datetime", columns=["type", "contract_type"],
\* values="quantity", fill_value=0): rows whose datetime or contract_type is
\* missing (NaT, None) are left out of the groups; one row per remaining
\* timestamp, ascending, and one column per remaining (type, contract_type);
\* a cell is the mean of its group, kept as <<sum, count>>, or the fill
\* value <<0, 0>>.
pivot_table(rows) ==
    LET kept == SelectSeq(rows, LAMBDA r : ~r.datetime.nat /\ r.contract_type.k # "null")
        index == Ascending({kept[i].datetime : i \in DOMAIN kept})
        columns == {<<kept[i].type, kept[i].contract_type>> : i \in DOMAIN kept}
        group(at, c) ==
            SelectSeq(kept, LAMBDA r : r.datetime = at /\ <<r.type, r.contract_type>> = c)
        cell(at, c) ==
            LET g == group(at, c)
            IN  <<Sum([i \in DOMAIN g |-> g[i].quantity]), Len(g)>>
    IN  DataFrame("datetime", columns,
                  [i \in DOMAIN index |->
                      [datetime |-> index[i],
                       cells |-> [c \in columns |-> cell(index[i], c)]]])

\* DataProcessor.process_bilateral_contracts(buy_data, sell_data)
process_bilateral_contracts(buy_data, sell_data) ==
    LET buy_content == extract_content(buy_data)
        sell_content == extract_content(sell_data)
        buy == Records([item \in DictsIn(buy_data) |-> bilateral_rows(item, "buy")],
                       buy_content.v)
        sell == Records([item \in DictsIn(sell_data) |-> bilateral_rows(item, "sell")],
                        sell_content.v)
    IN  IF buy_content.exc # None THEN {Run(<<>>, ProcessorRaised(buy_content.exc), <<>>)}
        ELSE IF sell_content.exc # None
        THEN {Run(<<>>, ProcessorRaised(sell_content.exc), <<>>)}
        ELSE IF buy.exc # None THEN {Run(<<>>, ProcessorRaised(buy.exc), <<>>)}
        ELSE IF sell.exc # None THEN {Run(<<>>, ProcessorRaised(sell.exc), <<>>)}
        ELSE IF buy.v \o sell.v = <<>>
        THEN {Run(<<>>, Returned(EmptyFrame(<<>>)), <<Processed(<<>>)>>)}
        ELSE {Run(buy.v \o sell.v, Returned(pivot_table(rows)),
                  <<Processed(pivot_table(rows).rows)>>) :
                rows \in sort_values(buy.v \o sell.v)}

-----------------------------------------------------------------------------
(* Responses given to the DataProcessor *)

\* The dict with the fields that are present: fields maps a key to <<>> when
\* the key is absent and to <<value>> otherwise.
Item(fields) ==
    Dict([key \in {f \in DOMAIN fields : fields[f] # <<>>} |-> fields[key][1]])

\* The "date" field: absent, a date, a date and time, not a timestamp.
DateInputs ==
    {<<>>, <<Str(<<"2024-01-02">>)>>, <<Str(<<"2024-01-01", "T", "05:00:00">>)>>,
     <<Str(<<"n/a">>)>>}

\* The domain-specific value field and its fallback, each absent or a number.
ValueInputs ==
    {<< <<>>, <<>> >>, << <<Num(0)>>, <<Num(3)>> >>, << <<Num(5)>>, <<>> >>,
     << <<>>, <<Num(3)>> >>, << <<Num(5)>>, <<Num(3)>> >>}

Normalizers ==
    {"process_ptf_data", "process_smf_data", "process_generation_data",
     "process_kgup_data", "process_bilateral_contracts", "process_consumption_data"}

\* The domain-specific value field of each normalizer and its fallback.
ValueKeys(kind) ==
    CASE kind = "process_ptf_data"            -> <<"price", "value">>
      [] kind = "process_smf_data"            -> <<"upRegulationPrice", "yalPrice">>
      [] kind = "process_generation_data"     -> <<"generation", "value">>
      [] kind = "process_kgup_data"           -> <<"plannedGeneration", "value">>
      [] kind = "process_bilateral_contracts" -> <<"quantity", "value">>
      [] kind = "process_consumption_data"    -> <<"consumption", "value">>

\* The key of the hourly breakdown, for the normalizers that expand one.
HourlyKey(kind) ==
    IF kind = "process_generation_data" THEN "hourlyGenerations" ELSE "hourlyPlans"

Expanding == {"process_generation_data", "process_kgup_data"}

\* A record without breakdown.
SimpleItem(kind, date, value) ==
    Item(("date" :> date) @@ (ValueKeys(kind)[1] :> value[1])
                          @@ (ValueKeys(kind)[2] :> value[2]))

\* The date and the value of the records that vary their other field.
GivenDate == <<Str(<<"2024-01-02">>)>>
GivenValue == << <<Num(5)>>, <<>> >>

\* The records: every date with the given value, every value with the given
\* date, for process_smf_data every value of its second price as well and,
\* for process_ptf_data, every date with an "hour" field.
SimpleItems(kind) ==
    {SimpleItem(kind, date, GivenValue) : date \in DateInputs}
    \cup {SimpleItem(kind, GivenDate, value) : value \in ValueInputs}
    \cup (IF kind = "process_ptf_data"
          THEN {Item(("date" :> date) @@ ("price" :> GivenValue[1])
                                      @@ ("hour" :> <<Num(7)>>)) :
                    date \in DateInputs}
          ELSE {})
    \cup (IF kind = "process_smf_data"
          THEN {Item(("date" :> GivenDate) @@ ("downRegulationPrice" :> value[1])
                                           @@ ("yatPrice" :> value[2])) :
                    value \in ValueInputs}
          ELSE {})

\* What a content list holds: records and, now and then, something else.
Elements(kind) == SimpleItems(kind) \cup {Num(1)}

MaxItems == 2
MaxHours == 2

SeqsUpTo(S, n) == UNION {[1..m -> S] : m \in 0..n}

\* The entries of an hourly breakdown: "hour" and the per-hour value, each
\* absent or a number; 24 is not an hour of the day.
HourEntries(kind) ==
    {Item(("hour" :> e[1]) @@ (ValueKeys(kind)[1] :> e[2])) :
        e \in {<< <<Num(1)>>, <<Num(5)>> >>, << <<>>, <<Num(7)>> >>,
               << <<Num(2)>>, <<>> >>, << <<Num(24)>>, <<Num(1)>> >>}}

\* A record with an hourly breakdown.
HourlyItem(kind, date, entries) ==
    Item(("date" :> date) @@ (HourlyKey(kind) :> <<List(entries)>>))

HourlyItems(kind) ==
    {HourlyItem(kind, date, entries) :
        date \in DateInputs, entries \in SeqsUpTo(HourEntries(kind), MaxHours)}

\* The content lists: up to MaxItems elements and, for the expanding
\* normalizers, a record with a breakdown alone, before or after an element.
Contents(kind) ==
    SeqsUpTo(Elements(kind), MaxItems)
    \cup (IF kind \in Expanding
          THEN {<<h>> : h \in HourlyItems(kind)}
               \cup {<<h, e>> : h \in HourlyItems(kind), e \in Elements(kind)}
               \cup {<<e, h>> : h \in HourlyItems(kind), e \in Elements(kind)}
          ELSE {})

\* The envelope the API wraps a content list in.
Envelope(content) ==
    Dict([resultCode |-> Str(<<"0">>), body |-> Dict([content |-> List(content)])])

\* The arguments of each normalizer: bare lists, short lists in their envelope
\* and, for the two sides of the bilateral contracts, MaxItems records in all.
Inputs(kind) ==
    IF kind = "process_bilateral_contracts"
    THEN LET sides == SeqsUpTo(Elements(kind), MaxItems)
         IN  {<<List(p[1]), List(p[2])>> :
                p \in {q \in sides \X sides : Len(q[1]) + Len(q[2]) <= MaxItems}}
    ELSE {<<List(c)>> : c \in Contents(kind)}
         \cup {<<Envelope(c)>> : c \in SeqsUpTo(Elements(kind), 1)}

\* The responses given to extract_content: the content under body.content, under
\* content, under items, any of them together, a body of another kind, a dict
\* of none of the shapes, a bare list and values that are no container.
ShapeInputs ==
    {Item(("body" :> b) @@ ("content" :> c) @@ ("items" :> i)
                        @@ ("resultCode" :> r)) :
        b \in {<<>>, <<Dict([content |-> List(<<Str(<<"in body.content">>)>>)])>>,
               <<Dict([organizations |-> List(<<>>)])>>, <<PyNone>>,
               <<List(<<Str(<<"content">>)>>)>>},
        c \in {<<>>, <<List(<<Str(<<"in content">>)>>)>>},
        i \in {<<>>, <<List(<<Str(<<"in items">>)>>)>>},
        r \in {<<>>, <<Str(<<"0">>)>>}}
    \cup {List(<<>>), List(<<Str(<<"in list">>)>>), PyNone, Num(0), Num(1),
          EmptyStr, Str(<<"error">>)}

\* The normalizer called with its arguments.
Call(kind, args) ==
    CASE kind = "process_ptf_data"            -> process_ptf_data(args[1])
      [] kind = "process_smf_data"            -> process_smf_data(args[1])
      [] kind = "process_generation_data"     -> process_generation_data(args[1])
      [] kind = "process_kgup_data"           -> process_kgup_data(args[1])
      [] kind = "process_bilateral_contracts" ->
            process_bilateral_contracts(args[1], args[2])
      [] kind = "process_consumption_data"    -> process_consumption_data(args[1])

\* A normalizer is called and returns or raises.
Normalize(kind, args) ==
    /\ nPhase = "idle"
    /\ \E run \in Call(kind, args) :
        /\ nPhase' = "done"
        /\ nKind' = kind
        /\ nData' = args
        /\ nRecords' = run.records
        /\ nLog' = run.log
        /\ nOut' = run.out
    /\ UNCHANGED <<authVars, clientVars, fetchVars, batchVars, pageVars, compVars>>

\* extract_content is called and returns or raises.
Extract(response) ==
    /\ nPhase = "idle"
    /\ nPhase' = "done"
    /\ nKind' = "extract_content"
    /\ nData' = <<response>>
    /\ nRecords' = <<>>
    /\ nLog' = <<>>
    /\ nOut' = LET r == extract_content(response)
               IN  IF r.exc # None THEN ProcessorRaised(r.exc) ELSE Returned(r.v)
    /\ UNCHANGED <<authVars, clientVars, fetchVars, batchVars, pageVars, compVars>>

NormReset ==
    /\ nPhase = "done"
    /\ nPhase' = "idle"
    /\ nKind' = None
    /\ nData' = <<>>
    /\ nRecords' = <<>>
    /\ nLog' = <<>>
    /\ nOut' = NoOutcome
    /\ UNCHANGED <<authVars, clientVars, fetchVars, batchVars, pageVars, compVars>>

-----------------------------------------------------------------------------
(* Pagination driver under the fetch methods *)

MaxRecords == 3

\* The fetch methods that hand one get_paginated result to their normalizer.
PagedMethods ==
    {"fetch_ptf_data", "fetch_smf_data", "fetch_generation_data",
     "fetch_kgup_data", "fetch_consumption_data"}

NormalizerOf(m) ==
    CASE m = "fetch_ptf_data"         -> "process_ptf_data"
      [] m = "fetch_smf_data"         -> "process_smf_data"
      [] m = "fetch_generation_data"  -> "process_generation_data"
      [] m = "fetch_kgup_data"        -> "process_kgup_data"
      [] m = "fetch_consumption_data" -> "process_consumption_data"

\* The i-th record the server holds for a request: records differ in value,
\* and later records are dated earlier.
DateTokenSeq == <<"2024-01-03", "2024-01-02", "2024-01-01">>
ServerRecord(m, i) ==
    SimpleItem(NormalizerOf(m),
               <<Str(<<DateTokenSeq[((i - 1) % Len(DateTokenSeq)) + 1]>>)>>,
               << <<Num(i)>>, <<>> >>)
ServerRecords(m, n) == [i \in 1..n |-> ServerRecord(m, i)]

RECURSIVE Flatten(_)
Flatten(pages) ==
    IF pages = <<>> THEN <<>> ELSE Head(pages) \o Flatten(Tail(pages))

\* Every way the server can cut its records into consecutive non-empty pages.
RECURSIVE Partitions(_)
Partitions(records) ==
    IF records = <<>> THEN {<<>>}
    ELSE UNION {{<<SubSeq(records, 1, first)>> \o rest :
                    rest \in Partitions(SubSeq(records, first + 1, Len(records)))} :
                first \in 1..Len(records)}

\* The envelope the server answers a request for a page with: the content of
\* the page (none past the last page) and, when it sends page metadata, the
\* number of pages.  A server that sends no metadata answers with everything.
ServerPage(pages, meta, page) ==
    [content |-> IF ~meta THEN Flatten(pages)
                 ELSE IF page \in DOMAIN pages THEN pages[page] ELSE <<>>,
     hasPage |-> meta,
     totalPages |-> IF meta THEN Len(pages) ELSE 0]

\* Mutant of IsLastPage: stops one page early.
IsLastPageEarly(response, page) ==
    \/ ~response.hasPage
    \/ page + 1 >= response.totalPages
    \/ response.content = <<>>

\* Mutant of IsLastPage: the number of pages in the metadata is not looked at.
IsLastPageIgnoresTotal(response, page) ==
    \/ ~response.hasPage
    \/ response.content = <<>>

\* Whether the driver stops after this response: no page metadata, the last
\* page of the metadata, or no further content.
IsLastPage(response, page) ==
    \/ ~response.hasPage
    \/ page >= response.totalPages
    \/ response.content = <<>>

\* The statuses a failing page request ends with.
PageFailures == {404, 500}

\* Mutant of fetch_result: the handler returns an empty table instead of
\* raising again.
fetch_result_swallows(m, data) ==
    IF data.kind = "raise" THEN {Returned(EmptyFrame(<<>>))}
    ELSE {run.out : run \in Call(NormalizerOf(m), <<data.value>>)}

\* The rest of a fetch method once get_paginated has returned or raised:
\* df = self.processor.process_*(data); return df / except APIError: raise
fetch_result(m, data) ==
    IF data.kind = "raise" THEN {data}
    ELSE {run.out : run \in Call(NormalizerOf(m), <<data.value>>)}

\* A fetch method has built its request and calls get_paginated, which
\* requests the first page.
PageBegin(m, pages, meta) ==
    /\ gPhase = "idle"
    /\ gPhase' = "paging"
    /\ gMethod' = m
    /\ gPages' = pages
    /\ gMeta' = meta
    /\ gPage' = 1
    /\ gCalls' = 1
    /\ gAcc' = <<>>
    /\ UNCHANGED <<gOutcome, gFetch, authVars, clientVars, fetchVars, batchVars,
                   normVars, compVars>>

\* The HTTP client answers the page requested last.  A failure ends
\* get_paginated with APIError; a page is added to the content received and
\* either the next page is requested or get_paginated returns the content and
\* the fetch method normalizes it.
PageReply(ok, status) ==
    /\ gPhase = "paging"
    /\ LET response == ServerPage(gPages, gMeta, gPage)
           acc == gAcc \o response.content
           failed == Raised("APIError", "data", status, None)
       IN  IF ~ok \/ IsLastPage(response, gPage)
           THEN /\ gOutcome' = (IF ok THEN Returned(List(acc)) ELSE failed)
                /\ \E o \in fetch_result(gMethod, gOutcome') : gFetch' = o
                /\ gPhase' = "done"
                /\ gAcc' = (IF ok THEN acc ELSE gAcc)
                /\ UNCHANGED <<gPage, gCalls>>
           ELSE /\ gPage' = gPage + 1
                /\ gCalls' = gCalls + 1
                /\ gAcc' = acc
                /\ UNCHANGED <<gPhase, gOutcome, gFetch>>
    /\ UNCHANGED <<gMethod, gPages, gMeta, authVars, clientVars, fetchVars, batchVars,
                   normVars, compVars>>

PageReset ==
    /\ gPhase = "done"
    /\ gPhase' = "idle"
    /\ gMethod' = None
    /\ gPages' = <<>>
    /\ gMeta' = FALSE
    /\ gPage' = 0
    /\ gAcc' = <<>>
    /\ gCalls' = 0
    /\ gOutcome' = NoOutcome
    /\ gFetch' = NoOutcome
    /\ UNCHANGED <<authVars, clientVars, fetchVars, batchVars, normVars, compVars>>

-----------------------------------------------------------------------------
(* DataFetcher methods made of several sub-fetches *)

CompoundMethods ==
    {"fetch_bilateral_contracts", "fetch_dashboard_data", "fetch_organization_overview"}

\* The sub-fetches of each method, in the order the method lists them.
SubFetches(m) ==
    CASE m = "fetch_bilateral_contracts" -> <<"buy", "sell">>
      [] m = "fetch_dashboard_data" ->
            <<"bpm", "dam", "idm", "consumption", "generation", "weighted_price">>
      [] m = "fetch_organization_overview" ->
            <<"uevcb_list", "generation", "kgup", "ptf", "smf">>

SubRunning == [state |-> "running", value |-> PyNone, exc |-> None]
SubReturned(value) == [state |-> "returned", value |-> value, exc |-> None]
SubRaised(exc) == [state |-> "raised", value |-> PyNone, exc |-> exc]

\* The elements of a finite set in some order.
SeqOf(S) ==
    CHOOSE q \in [1..Cardinality(S) -> S] : \A i, j \in DOMAIN q : q[i] = q[j] => i = j

\* DataProcessor.process_dashboard_data(data).  The timestamp of a summary
\* row is datetime.now(), kept as the word "now".
process_dashboard_data(data) ==
    IF ~Truthy(data) THEN Ok(EmptyFrame(<<>>))
    ELSE IF Contains(data, "body") = "TypeError" THEN Err("TypeError")
    ELSE IF Contains(data, "body") = "False" THEN Ok(EmptyFrame(<<>>))
    ELSE IF data.k # "dict" THEN Err("TypeError")
    ELSE LET body == data.d.body
             has_summary == Contains(body, "summary")
             has_data == Contains(body, "data")
         IN  IF has_summary = "TypeError" THEN Err("TypeError")
             ELSE IF has_summary = "True"
             THEN IF body.k # "dict" THEN Err("TypeError")
                  ELSE IF body.d.summary.k # "dict" THEN Err("AttributeError")
                  ELSE LET metrics == SeqOf(DOMAIN body.d.summary.d)
                       IN  Ok(DataFrame("RangeIndex", <<"metric", "value", "timestamp">>,
                                        [i \in DOMAIN metrics |->
                                           [metric |-> metrics[i],
                                            value |-> body.d.summary.d[metrics[i]],
                                            timestamp |-> "now"]]))
             ELSE IF has_data = "True"
             THEN IF body.k # "dict" THEN Err("TypeError")
                  ELSE LET items == DictItems(body.d.data)
                       IN  IF items.exc # None THEN Err(items.exc)
                           ELSE Ok(DataFrame("RangeIndex",
                                             <<"metric", "value", "change", "timestamp">>,
                                             [i \in DOMAIN items.v |->
                                                [metric |-> Get(items.v[i], "name", EmptyStr),
                                                 value |-> Get(items.v[i], "value", Num(0)),
                                                 change |-> Get(items.v[i], "change", Num(0)),
                                                 timestamp |-> parse_datetime(
                                                     Get(items.v[i], "date", EmptyStr))]]))
             ELSE Ok(EmptyFrame(<<>>))

\* What the two sides of the bilateral contracts may hold.
SideContents ==
    {<<>>, <<Dict([date |-> Str(<<"2024-01-02">>), quantity |-> Num(5)])>>}

\* What a dashboard endpoint may answer: a summary, a list of metrics, an
\* envelope without body and an envelope whose body is null.
DashResponses ==
    {Dict([body |-> Dict([summary |-> Dict([total |-> Num(5)])])]),
     Dict([resultCode |-> Str(<<"0">>)]),
     Dict([body |-> PyNone])}

\* The table and the list a fetch method of the overview may return.
SomeTable == DataFrame("datetime", <<"value">>, <<[datetime |-> Timestamp(1, 0), value |-> 5]>>)
SomeUevcbs == List(<<Str(<<"UEVCB">>)>>)

\* What a sub-fetch can end with.
SubResults(m, key) ==
    CASE m = "fetch_bilateral_contracts" ->
            {SubReturned(List(c)) : c \in SideContents} \cup {SubRaised("APIError")}
      [] m = "fetch_dashboard_data" ->
            {SubReturned(r) : r \in DashResponses} \cup {SubRaised("APIError")}
      [] m = "fetch_organization_overview" ->
            {SubReturned(IF key = "uevcb_list" THEN SomeUevcbs ELSE SomeTable)}
            \cup {SubRaised(e) : e \in {"APIError", "ValidationError"}}

AllSubResults ==
    UNION {UNION {SubResults(m, SubFetches(m)[i]) : i \in DOMAIN SubFetches(m)} :
           m \in CompoundMethods}

\* Mutant of propagates: no exception of a sub-fetch leaves the method.
propagates_never(m, exc) == FALSE

\* Whether an exception of a sub-fetch leaves the method: asyncio.gather
\* without return_exceptions re-raises it and `except APIError: raise` lets it
\* out; gather(..., return_exceptions=True) returns it as a result; the
\* overview awaits each task under `except Exception`.
propagates(m, exc) ==
    CASE m = "fetch_bilateral_contracts"   -> TRUE
      [] m = "fetch_dashboard_data"        -> FALSE
      [] m = "fetch_organization_overview" -> exc \notin ExceptionClasses

\* Whether the method awaits the sub-fetch: the tasks given to asyncio.gather
\* run together, the tasks of the overview are awaited one after the other.
Awaited(m, sub, key) ==
    m = "fetch_organization_overview" =>
        \A i, j \in DOMAIN SubFetches(m) :
            (SubFetches(m)[j] = key /\ i < j) => sub[SubFetches(m)[i]].state # "running"

\* What the method ends with once every sub-fetch has ended without an
\* exception leaving the method.
assemble(m, sub) ==
    CASE m = "fetch_bilateral_contracts" ->
            {run.out : run \in process_bilateral_contracts(sub["buy"].value,
                                                            sub["sell"].value)}
      [] m = "fetch_dashboard_data" ->
            LET keys == SubFetches(m)
                tables == [i \in DOMAIN keys |->
                              IF sub[keys[i]].state = "raised" THEN Ok(EmptyFrame(<<>>))
                              ELSE process_dashboard_data(sub[keys[i]].value)]
                failed == {i \in DOMAIN keys : tables[i].exc # None}
            IN  IF failed # {}
                THEN {Raised(tables[CHOOSE i \in failed : \A j \in failed : i <= j].exc,
                             "processor", 0, None)}
                ELSE {Returned([i \in DOMAIN keys |-> <<keys[i], tables[i].v>>])}
      [] m = "fetch_organization_overview" ->
            LET keys == SubFetches(m)
            IN  {Returned([i \in DOMAIN keys |->
                              <<keys[i],
                                IF sub[keys[i]].state = "returned" THEN sub[keys[i]].value
                                ELSE IF keys[i] = "uevcb_list" THEN List(<<>>)
                                ELSE EmptyFrame(<<>>)>>])}

\* The method creates its tasks.
CompBegin(m) ==
    /\ kPhase = "idle"
    /\ kPhase' = "running"
    /\ kMethod' = m
    /\ kSub' = [key \in {SubFetches(m)[i] : i \in DOMAIN SubFetches(m)} |-> SubRunning]
    /\ UNCHANGED <<kOut, authVars, clientVars, fetchVars, batchVars, pageVars, normVars>>

\* A sub-fetch ends; its exception may end the method.
SubDone(key, r) ==
    /\ kPhase = "running"
    /\ key \in DOMAIN kSub
    /\ kSub[key].state = "running"
    /\ Awaited(kMethod, kSub, key)
    /\ r \in SubResults(kMethod, key)
    /\ kSub' = [kSub EXCEPT ![key] = r]
    /\ IF r.state = "raised" /\ propagates(kMethod, r.exc)
       THEN /\ kPhase' = "raised"
            /\ kOut' = Raised(r.exc, key, 0, None)
       ELSE UNCHANGED <<kPhase, kOut>>
    /\ UNCHANGED <<kMethod, authVars, clientVars, fetchVars, batchVars, pageVars, normVars>>

\* Every sub-fetch has ended: the method builds its result.
CompReturn ==
    /\ kPhase = "running"
    /\ \A key \in DOMAIN kSub : kSub[key].state # "running"
    /\ \E o \in assemble(kMethod, kSub) :
          /\ kOut' = o
          /\ kPhase' = IF o.kind = "raise" THEN "raised" ELSE "returned"
    /\ UNCHANGED <<kMethod, kSub, authVars, clientVars, fetchVars, batchVars, pageVars,
                   normVars>>

CompReset ==
    /\ kPhase \in {"returned", "raised"}
    /\ kPhase' = "idle"
    /\ kMethod' = None
    /\ kSub' = <<>>
    /\ kOut' = NoOutcome
    /\ UNCHANGED <<authVars, clientVars, fetchVars, batchVars, pageVars, normVars>>

-----------------------------------------------------------------------------
(* Specifications *)

Init ==
    /\ now = 1
    /\ token = NoToken
    /\ expires_at = 0
    /\ obtainedAt = 0
    /\ lastAuth = [status |-> 0, text |-> <<>>]
    /\ pc = [p \in Callers |-> "idle"]
    /\ req = [p \in Callers |-> NoCall]
    /\ sent = [p \in Callers |-> <<>>]
    /\ age = [p \in Callers |-> 0]
    /\ resp = [p \in Callers |-> <<>>]
    /\ forced = [p \in Callers |-> 0]
    /\ authPosts = [p \in Callers |-> 0]
    /\ outcome = [p \in Callers |-> NoOutcome]
    /\ fPhase = "idle"
    /\ fMethod = None
    /\ fStart = 0
    /\ fEnd = 0
    /\ fCalls = 0
    /\ fOutcome = None
    /\ bPhase = "idle"
    /\ bDataset = None
    /\ bOrgs = <<>>
    /\ bTask = <<>>
    /\ bPair = <<>>
    /\ stErrors = <<>>
    /\ bResult = <<>>
    /\ gPhase = "idle"
    /\ gMethod = None
    /\ gPages = <<>>
    /\ gMeta = FALSE
    /\ gPage = 0
    /\ gAcc = <<>>
    /\ gCalls = 0
    /\ gOutcome = NoOutcome
    /\ gFetch = NoOutcome
    /\ nPhase = "idle"
    /\ nKind = None
    /\ nData = <<>>
    /\ nRecords = <<>>
    /\ nLog = <<>>
    /\ nOut = NoOutcome
    /\ kPhase = "idle"
    /\ kMethod = None
    /\ kSub = <<>>
    /\ kOut = NoOutcome

\* Requests of concurrent callers through one EpiasClient.
Next ==
    \/ \E p \in Callers : Start(p)
    \/ \E p \in Callers, a \in AuthAnswers : AuthReply(p, a.status, a.text)
    \/ \E p \in Callers, status \in DataStatuses : DataReply(p, status)
    \/ \E p \in Callers : Finish(p)
    \/ \E d \in ClockSteps : Tick(d)

Spec == Init /\ [][Next]_vars

\* Calls of the date-ranged fetch methods.
NextFetch ==
    \/ \E m \in FetchMethods, s \in Days, e \in Days : FetchBegin(m, s, e)
    \/ \E r \in {"returned", "APIError"} : FetchEnd(r)
    \/ FetchReset

SpecFetch == Init /\ [][NextFetch]_vars

\* Batches over the selected organisations.
NextBatch ==
    \/ \E dataset \in Datasets, orgs \in OrgLists : BatchStart(dataset, orgs)
    \/ \E i \in 1..MaxOrgs, r \in AllFetchResults : TaskDone(i, r)
    \/ BatchReturn
    \/ BatchReset

SpecBatch == Init /\ [][NextBatch]_vars

\* Calls of the DataProcessor.
NextNorm ==
    \/ /\ nPhase = "idle"
       /\ \E kind \in Normalizers : \E args \in Inputs(kind) : Normalize(kind, args)
    \/ /\ nPhase = "idle"
       /\ \E response \in ShapeInputs : Extract(response)
    \/ NormReset

SpecNorm == Init /\ [][NextNorm]_vars

\* Fetches through the pagination driver: the server holds up to MaxRecords
\* records, cut into pages in any way, and sends page metadata whenever it
\* has more than one page.
NextPage ==
    \/ /\ gPhase = "idle"
       /\ \E m \in PagedMethods, n \in 0..MaxRecords, meta \in BOOLEAN :
            \E pages \in Partitions(ServerRecords(m, n)) :
                /\ ~meta => Len(pages) <= 1
                /\ PageBegin(m, pages, meta)
    \/ \E status \in PageFailures : PageReply(FALSE, status)
    \/ PageReply(TRUE, 200)
    \/ PageReset

SpecPage == Init /\ [][NextPage]_vars

\* Calls of the methods made of several sub-fetches.
NextComp ==
    \/ \E m \in CompoundMethods : CompBegin(m)
    \/ /\ kPhase = "running"
       /\ \E key \in DOMAIN kSub, r \in AllSubResults : SubDone(key, r)
    \/ CompReturn
    \/ CompReset

SpecComp == Init /\ [][NextComp]_vars

-----------------------------------------------------------------------------
(* Properties of EpiasClient._request and TGTManager.current *)

Is2xx(status) == 200 <= status /\ status < 300

FirstStatus(p) == resp[p][1].status

\* The bounds of C1: at most two attempts, at most one forced refresh, and a
\* second attempt only after 401 or 406 on the first.
RetryBounded(p) ==
    /\ Len(sent[p]) <= 2
    /\ forced[p] <= 1
    /\ Len(sent[p]) = 2 => Len(resp[p]) >= 1 /\ FirstStatus(p) \in {401, 406}

\* C1 as stated: whenever the first response of a call is 401 or 406, the call
\* makes exactly one forced refresh and exactly one retry, within the bounds
\* above.
C1_AsClaimed ==
    \A p \in Callers :
        /\ RetryBounded(p)
        /\ (pc[p] = "done" /\ Len(resp[p]) >= 1 /\ FirstStatus(p) \in {401, 406})
              => forced[p] = 1 /\ Len(sent[p]) = 2

\* C1 amended: after a first response of 401 or 406 the call makes exactly one
\* forced refresh; it makes exactly one retry when that refresh returns a ticket
\* and raises the refresh's error after its single attempt when it does not.
\* A call whose first response is anything else makes no forced refresh and no
\* second attempt.  The bounds above hold in every state.
C1_RetryOnce ==
    \A p \in Callers :
        /\ RetryBounded(p)
        /\ (Len(resp[p]) >= 1 /\ FirstStatus(p) \in {401, 406})
              => /\ forced[p] = 1
                 /\ pc[p] \in {"auth2", "sent2", "done"}
                 /\ pc[p] = "auth2" => Len(sent[p]) = 1
                 /\ pc[p] = "sent2" => Len(sent[p]) = 2 /\ Len(resp[p]) = 1
                 /\ pc[p] = "done" =>
                       \/ Len(sent[p]) = 2 /\ Len(resp[p]) = 2
                       \/ /\ Len(sent[p]) = 1
                          /\ outcome[p].kind = "raise"
                          /\ outcome[p].origin = "auth"
        /\ (Len(resp[p]) >= 1 /\ FirstStatus(p) \notin {401, 406})
              => forced[p] = 0 /\ Len(sent[p]) = 1 /\ pc[p] = "done"

C1_Witness ==
    \E p \in Callers :
        /\ pc[p] = "done"
        /\ Len(resp[p]) = 2
        /\ FirstStatus(p) = 406
        /\ forced[p] = 1
        /\ Len(sent[p]) = 2

\* C2: a call answered 401 or 406 on the first attempt and 2xx on the retry
\* returns the parsed body of the retry's response and raises nothing.
C2_RecoversOnce ==
    \A p \in Callers :
        (/\ pc[p] = "done"
         /\ Len(resp[p]) = 2
         /\ FirstStatus(p) \in {401, 406}
         /\ Is2xx(resp[p][2].status))
          => outcome[p] = Returned(<<"json", resp[p][2].body>>)

C2_Witness ==
    \E p \in Callers :
        /\ pc[p] = "done"
        /\ Len(resp[p]) = 2
        /\ FirstStatus(p) = 401
        /\ resp[p][2].status = 200
        /\ outcome[p].kind = "return"
        /\ outcome[p].value = <<"json", "b2">>

\* C3 as stated: a call whose retry is answered with a non-2xx status fails with
\* an APIError carrying that status and that body, after exactly two attempts.
C3_AsClaimed ==
    \A p \in Callers :
        (pc[p] = "done" /\ Len(resp[p]) = 2 /\ ~Is2xx(resp[p][2].status))
          => /\ outcome[p].kind = "raise"
             /\ outcome[p].exc = "APIError"
             /\ outcome[p].status = resp[p][2].status
             /\ outcome[p].body = resp[p][2].body
             /\ Len(sent[p]) = 2

\* C4: the ticket attached to an attempt was obtained less than the validity
\* window minus 60 seconds before the attempt was sent, and it is a ticket.
C4_FreshTicket ==
    \A p \in Callers :
        Len(sent[p]) >= 1
          => /\ age[p] < TTL_SECONDS - 60
             /\ \A i \in DOMAIN sent[p] : sent[p][i].tgt # NoToken

C4_Witness ==
    \E p \in Callers :
        /\ pc[p] = "sent1"
        /\ authPosts[p] = 0
        /\ age[p] = TTL_SECONDS - 61

\* A step in which caller p calls current() without force_refresh.
CallsCurrent(p) == pc[p] = "idle" /\ pc'[p] # "idle"

\* That call returns the cached ticket and makes no request to AUTH_URL.
ServedFromCache(p) ==
    /\ pc'[p] = "sent1"
    /\ authPosts'[p] = 0
    /\ sent'[p][1].tgt = token
    /\ token' = token
    /\ expires_at' = expires_at

\* C5 as stated: a call of current() made within the validity window of the
\* cached ticket returns that ticket and makes no request to the
\* authentication endpoint.
C5_AsClaimed ==
    [][\A p \in Callers :
          (CallsCurrent(p) /\ token # NoToken /\ now - obtainedAt < TTL_SECONDS)
            => ServedFromCache(p)]_vars

\* C5 amended: a call of current() made less than the validity window minus
\* 60 seconds after the cached ticket was obtained returns that ticket, the
\* value every call since its refresh returned, and makes no request to the
\* authentication endpoint.
C5_Idempotent ==
    [][\A p \in Callers :
          (CallsCurrent(p) /\ token # NoToken
             /\ now - obtainedAt < TTL_SECONDS - 60)
            => ServedFromCache(p)]_vars

C5_Witness ==
    \E p \in Callers :
        /\ pc[p] = "sent1"
        /\ authPosts[p] = 0
        /\ age[p] = TTL_SECONDS - 61
        /\ sent[p][1].tgt = token
        /\ now - obtainedAt = TTL_SECONDS - 61

\* A step in which caller p calls current(force_refresh=True).
CallsForced(p) == forced'[p] = forced[p] + 1

\* A step in which the refresh requested by caller p ends.
RefreshEnds(p) == pc[p] \in {"auth1", "auth2"} /\ pc'[p] # pc[p]

\* The step replaces the cached ticket by the one received and returns it.
Replaced(p) ==
    /\ pc'[p] \in {"sent1", "sent2"}
    /\ token' # NoToken
    /\ token' = Strip(lastAuth'.text)
    /\ expires_at' = now + TTL_SECONDS - 60
    /\ sent'[p][Len(sent'[p])].tgt = token'

\* The step raises out of current() and leaves the cache as it was.
RefreshFailed(p) ==
    /\ pc'[p] = "done"
    /\ outcome'[p].kind = "raise"
    /\ outcome'[p].origin = "auth"
    /\ token' = token
    /\ expires_at' = expires_at

\* When current() requests a new ticket, and what it does when it does not.
RequestsExactlyWhen(p) ==
    /\ CallsCurrent(p) =>
          /\ pc'[p] = "auth1" <=> (token = NoToken \/ now >= expires_at)
          /\ pc'[p] = "auth1" => authPosts'[p] = 1 /\ token' = token
          /\ pc'[p] # "auth1" => ServedFromCache(p)
    /\ CallsForced(p) =>
          /\ pc'[p] = "auth2"
          /\ authPosts'[p] = authPosts[p] + 1

\* C6 as stated: current() requests a new ticket exactly when the ticket is
\* absent, the clock has reached the cached expiry or force_refresh is set; in
\* that case it replaces the cached ticket and sets the expiry to now + validity
\* window - 60; otherwise it returns the cached ticket and changes nothing.
C6_AsClaimed ==
    [][\A p \in Callers :
          /\ RequestsExactlyWhen(p)
          /\ RefreshEnds(p) => Replaced(p)]_vars

\* C6 amended: as stated, except that the cached ticket and expiry are replaced
\* when the authentication endpoint answers with a ticket; when the refresh
\* fails current() raises and changes neither.
C6_RefreshRule ==
    [][\A p \in Callers :
          /\ RequestsExactlyWhen(p)
          /\ RefreshEnds(p) => Replaced(p) \/ RefreshFailed(p)]_vars

C6_Witness ==
    \E p \in Callers :
        /\ pc[p] = "sent2"
        /\ now > 1
        /\ now - obtainedAt = 0
        /\ expires_at = now + TTL_SECONDS - 60
        /\ sent[p][2].tgt = token
        /\ sent[p][1].tgt # token

\* C7 as stated: an answer of the authentication endpoint with a non-success
\* status, or with a body that does not begin with the ticket prefix, makes the
\* Ticket Manager fail with AuthenticationError, and the value is neither cached
\* nor returned.
C7_AsClaimed ==
    [][\A p \in Callers :
          (/\ RefreshEnds(p)
           /\ \/ ~Is2xx(lastAuth'.status)
              \/ ~StartsWith(lastAuth'.text, Prefix))
            => /\ pc'[p] = "done"
               /\ outcome'[p].kind = "raise"
               /\ outcome'[p].exc = "AuthenticationError"
               /\ token' = token
               /\ sent'[p] = sent[p]]_vars

\* C8 as stated: at most one request to the authentication endpoint is
\* outstanding at any time.
C8_AsClaimed ==
    Cardinality({p \in Callers : pc[p] \in {"auth1", "auth2"}}) <= 1

-----------------------------------------------------------------------------
(* Properties of the fetch methods and of the fan-out *)

\* C9: a fetch whose end date precedes its start date raises a validation error
\* with no call to the client made; a fetch with start <= end is accepted and
\* calls the client.
C9_RangeValidated ==
    fPhase # "idle" =>
        /\ fEnd < fStart =>
              fPhase = "done" /\ fOutcome = "ValidationError" /\ fCalls = 0
        /\ fStart <= fEnd =>
              fOutcome # "ValidationError" /\ fCalls >= 1

C9_Witness ==
    /\ fPhase = "done"
    /\ fMethod = "fetch_generation_data"
    /\ fStart = fEnd + 1
    /\ fOutcome = "ValidationError"
    /\ fCalls = 0

Range(f) == {f[i] : i \in DOMAIN f}

\* C10: a batch over N distinct organisations never raises; its result has
\* exactly N entries, one per organisation id; an organisation whose fetch
\* raised maps to the empty table and is reported with st.error, and one whose
\* fetch returned maps to the table fetched.
C10_BatchIsolated ==
    /\ bPhase # "raised"
    /\ bPhase = "returned" =>
          /\ DOMAIN bResult = Range(bOrgs)
          /\ Cardinality(DOMAIN bResult) = Len(bOrgs)
          /\ \A i \in DOMAIN bOrgs :
                /\ bTask[i].state = "raised" =>
                      /\ bResult[bOrgs[i]] = <<>>
                      /\ bOrgs[i] \in Range(stErrors)
                /\ bTask[i].state = "returned" =>
                      /\ bResult[bOrgs[i]] = bTask[i].df
                      /\ bOrgs[i] \notin Range(stErrors)

C10_Witness ==
    /\ bPhase = "returned"
    /\ bDataset = "realtime"
    /\ Len(bOrgs) = 3
    /\ bTask[2].state = "raised"
    /\ bTask[1].state = "returned" /\ bTask[1].df # <<>>
    /\ bTask[3].state = "returned" /\ bTask[3].df # <<>>
    /\ Cardinality(DOMAIN bResult) = 3
    /\ stErrors = <<bOrgs[2]>>

-----------------------------------------------------------------------------
(* Ticket acquisition failing inside a batch *)

\* C11 (as claimed): a failure to acquire the ticket during a fetch is fatal to
\* the whole operation: a batch in which the fetch of some organisation failed
\* acquiring the ticket never completes with a result.
C11_AsClaimed ==
    bPhase = "returned" =>
        \A i \in DOMAIN bTask : bTask[i].exc # TGTFormatError

-----------------------------------------------------------------------------
(* Properties of the pagination driver *)

Max(a, b) == IF a >= b THEN a ELSE b

\* C12: whatever way the server cuts its records into pages, the content
\* get_paginated returns is the server's records, each once and none missing,
\* in the server's order: the content of one page of unbounded size.
C12_CompleteUnion ==
    (gPhase = "done" /\ gOutcome.kind = "return") =>
        /\ gOutcome.value = List(Flatten(gPages))
        /\ \A i, j \in DOMAIN gOutcome.value.l :
                gOutcome.value.l[i] = gOutcome.value.l[j] => i = j
        /\ Len(gOutcome.value.l) = Len(Flatten(gPages))

\* C12 witness: a result assembled from several pages.
C12_Witness ==
    /\ gPhase = "done"
    /\ gOutcome.kind = "return"
    /\ Len(gPages) >= 2
    /\ gCalls = Len(gPages)
    /\ Len(gOutcome.value.l) > Len(gPages[1])

C14_Terminates ==
    /\ gPhase # "idle" => gCalls <= Max(1, Len(gPages))
    /\ gPhase = "paging" => gPage = gCalls
    /\ (gPhase = "done" /\ gOutcome.kind = "return") =>
            gCalls = (IF gMeta THEN Max(1, Len(gPages)) ELSE 1)

\* C14 witness: a first response without page metadata ends the driver.
C14_Witness ==
    /\ gPhase = "done"
    /\ gOutcome.kind = "return"
    /\ ~gMeta
    /\ gCalls = 1
    /\ gOutcome.value.l # <<>>

-----------------------------------------------------------------------------
(* Properties of the DataProcessor *)

\* The envelope shapes a response can match.
HasBodyContent(r) ==
    /\ r.k = "dict"
    /\ "body" \in DOMAIN r.d
    /\ r.d["body"].k = "dict"
    /\ "content" \in DOMAIN r.d["body"].d
HasContent(r) == r.k = "dict" /\ "content" \in DOMAIN r.d
HasItems(r) == r.k = "dict" /\ "items" \in DOMAIN r.d
IsBareList(r) == r.k = "list"

\* The content of the matching shape of highest priority.
ContentByPriority(r) ==
    IF HasBodyContent(r) THEN r.d["body"].d["content"]
    ELSE IF HasContent(r) THEN r.d["content"]
    ELSE IF HasItems(r) THEN r.d["items"]
    ELSE r

\* C15 (as claimed): extract_content returns the content of the first matching
\* shape among body.content, content, items, bare list, returns a bare list
\* unchanged, and fails on a response that matches none of the shapes.
C15_AsClaimed ==
    (nPhase = "done" /\ nKind = "extract_content") =>
        LET r == nData[1]
        IN  IF HasBodyContent(r) \/ HasContent(r) \/ HasItems(r) \/ IsBareList(r)
            THEN nOut.kind = "return" /\ nOut.value = ContentByPriority(r)
            ELSE nOut.kind = "raise"

\* The records (dict items) of the content lists a normalizer was called with.
RecordsOf(args) ==
    LET items(i) == SelectSeq(extract_content(args[i]).v.l, LAMBDA x : x.k = "dict")
    IN  IF Len(args) = 2 THEN items(1) \o items(2) ELSE items(1)

\* The number of rows a record stands for: one, or one per entry of its
\* hourly breakdown.
RowsExpected(kind, item) ==
    IF kind \in Expanding /\ HourlyKey(kind) \in DOMAIN item.d
    THEN Len(item.d[HourlyKey(kind)].l)
    ELSE 1

\* Whether the timestamp of a record is missing or unparseable.
InvalidTimestamp(item) == parse_datetime(Get(item, "date", EmptyStr)).nat

\* The number of rows that carry the invalid-timestamp sentinel.
InvalidRows(rows) == Cardinality({i \in DOMAIN rows : rows[i].datetime.nat})

\* Whether building the rows of a record raises.
RowsRaise(kind, item) ==
    CASE kind = "process_ptf_data"            -> ptf_rows(item).exc # None
      [] kind = "process_smf_data"            -> smf_rows(item).exc # None
      [] kind = "process_generation_data"     -> generation_rows(item).exc # None
      [] kind = "process_kgup_data"           -> kgup_rows(item).exc # None
      [] kind = "process_bilateral_contracts" -> bilateral_rows(item, "buy").exc # None
      [] kind = "process_consumption_data"    -> consumption_rows(item).exc # None

\* C16 (as claimed): in every normalizer the records without a parseable
\* timestamp neither raise nor disappear: unless a record with a valid
\* timestamp raises, the table has a row with the invalid-timestamp sentinel
\* for each row such a record stands for.
C16_AsClaimed ==
    (nPhase = "done" /\ nKind \in Normalizers) =>
        LET recs == RecordsOf(nData)
            invalid == SelectSeq(recs, InvalidTimestamp)
            others == SelectSeq(recs, LAMBDA x : ~InvalidTimestamp(x))
        IN  (/\ invalid # <<>>
             /\ \A i \in DOMAIN others : ~RowsRaise(nKind, others[i])) =>
                /\ nOut.kind = "return"
                /\ InvalidRows(nOut.value.rows)
                     = Sum([i \in DOMAIN invalid |-> RowsExpected(nKind, invalid[i])])

\* The value fields of a normalizer: the domain-specific key, the key read
\* when that one gives nothing, and the column the value goes to.
ValueFields(kind) ==
    CASE kind = "process_ptf_data"            -> {<<"price", "value", "price">>}
      [] kind = "process_smf_data"            ->
            {<<"upRegulationPrice", "yalPrice", "up_price">>,
             <<"downRegulationPrice", "yatPrice", "down_price">>}
      [] kind = "process_generation_data"     -> {<<"generation", "value", "value">>}
      [] kind = "process_kgup_data"           ->
            {<<"plannedGeneration", "value", "planned_generation">>}
      [] kind = "process_bilateral_contracts" -> {<<"quantity", "value", "quantity">>}
      [] kind = "process_consumption_data"    -> {<<"consumption", "value", "value">>}

\* Whether a record is expanded through its hourly breakdown.
HasBreakdown(kind, item) == kind \in Expanding /\ HourlyKey(kind) \in DOMAIN item.d

\* The number of rows the records before the i-th stand for.
RowsBefore(kind, recs, i) == Sum([j \in 1..(i - 1) |-> RowsExpected(kind, recs[j])])

MissingBoth(item, f) == f[1] \notin DOMAIN item.d /\ f[2] \notin DOMAIN item.d

OthersBuild(kind, recs, i) == \A j \in DOMAIN recs : j # i => ~RowsRaise(kind, recs[j])

C18_AsClaimed ==
    (nPhase = "done" /\ nKind \in Normalizers /\ nOut.kind = "return") =>
        LET recs == RecordsOf(nData)
        IN  \A i \in DOMAIN recs : \A f \in ValueFields(nKind) :
              (/\ ~HasBreakdown(nKind, recs[i])
               /\ f[1] \in DOMAIN recs[i].d
               /\ recs[i].d[f[1]].k = "num") =>
                    /\ RowsBefore(nKind, recs, i) + 1 \in DOMAIN nRecords
                    /\ nRecords[RowsBefore(nKind, recs, i) + 1][f[3]] = recs[i].d[f[1]].n

\* A timestamp advanced by a number of hours.
Advance(ts, hours) ==
    Timestamp(ts.day + ((ts.hour + hours) \div 24), (ts.hour + hours) % 24)

\* The parsed parent date of a record.
ParentTime(item) == parse_datetime(Get(item, "date", EmptyStr))

\* C19 (as claimed): a generation or KGUP record with a parseable date and an
\* hourly breakdown of N entries gives exactly N rows, the e-th at the parent
\* date advanced by the e-th entry's hour offset and with the e-th entry's
\* value; a record without breakdown gives one row at the parent timestamp.
C19_AsClaimed ==
    (nPhase = "done" /\ nKind \in Expanding) =>
        LET recs == RecordsOf(nData)
            valueKey == ValueKeys(nKind)[1]
            column == (CHOOSE f \in ValueFields(nKind) : TRUE)[3]
        IN  \A i \in DOMAIN recs :
              (/\ ~ParentTime(recs[i]).nat
               /\ OthersBuild(nKind, recs, i)) =>
                LET first == RowsBefore(nKind, recs, i)
                    count == RowsExpected(nKind, recs[i])
                IN  /\ nOut.kind = "return"
                    /\ Len(nRecords) = Sum([j \in DOMAIN recs |-> RowsExpected(nKind, recs[j])])
                    /\ IF HasBreakdown(nKind, recs[i])
                       THEN LET entries == recs[i].d[HourlyKey(nKind)].l
                            IN  \A e \in 1..count :
                                  /\ "hour" \in DOMAIN entries[e].d =>
                                        nRecords[first + e].datetime
                                          = Advance(ParentTime(recs[i]), entries[e].d.hour.n)
                                  /\ valueKey \in DOMAIN entries[e].d =>
                                        nRecords[first + e][column] = entries[e].d[valueKey].n
                       ELSE nRecords[first + 1].datetime = ParentTime(recs[i])

\* C20 (as claimed): every table a normalizer returns is indexed by the
\* timestamp and its rows are in ascending order of it, whatever the order
\* of the records given.
C20_AsClaimed ==
    (nPhase = "done" /\ nKind \in Normalizers /\ nOut.kind = "return") =>
        LET df == nOut.value
        IN  /\ df.index = "datetime"
            /\ \A i, j \in DOMAIN df.rows :
                  i < j => TsLeq(df.rows[i].datetime, df.rows[j].datetime)

\* C21 (as claimed): the table process_bilateral_contracts returns has one
\* row per distinct valid timestamp of its records and one column per (side,
\* contract type) pair of its records; the cell of a record's timestamp, side
\* and contract type holds that record's source quantity, and a cell no record
\* stands for holds the fill value zero.
C21_AsClaimed ==
    (/\ nPhase = "done"
     /\ nKind = "process_bilateral_contracts"
     /\ nOut.kind = "return"
     /\ nRecords # <<>>) =>
        LET recs == RecordsOf(nData)
            df == nOut.value
            At(r) == {i \in DOMAIN df.rows : df.rows[i].datetime = r.datetime}
        IN  /\ {df.rows[i].datetime : i \in DOMAIN df.rows}
                 = {nRecords[i].datetime : i \in {j \in DOMAIN nRecords : ~nRecords[j].datetime.nat}}
            /\ \A i, j \in DOMAIN df.rows : df.rows[i].datetime = df.rows[j].datetime => i = j
            /\ df.columns = {<<nRecords[i].type, nRecords[i].contract_type>> : i \in DOMAIN nRecords}
            /\ \A i \in DOMAIN nRecords :
                  (~nRecords[i].datetime.nat /\ "quantity" \in DOMAIN recs[i].d) =>
                     \A k \in At(nRecords[i]) :
                        LET c == <<nRecords[i].type, nRecords[i].contract_type>>
                        IN  /\ c \in DOMAIN df.rows[k].cells
                            /\ df.rows[k].cells[c][1]
                                 = recs[i].d.quantity.n * df.rows[k].cells[c][2]
            /\ \A k \in DOMAIN df.rows : \A c \in DOMAIN df.rows[k].cells :
                  (\A i \in DOMAIN nRecords :
                      ~(/\ nRecords[i].datetime = df.rows[k].datetime
                        /\ <<nRecords[i].type, nRecords[i].contract_type>> = c)) =>
                     df.rows[k].cells[c] = <<0, 0>>

\* C22 (as claimed): process_ptf_data gives one row per record, at the
\* record's parsed date; the row's price is the record's price and its hour is
\* the record's hour field, or without one the hour of day of the parsed date,
\* or 0 when the date does not parse.
C22_AsClaimed ==
    (/\ nPhase = "done"
     /\ nKind = "process_ptf_data"
     /\ nOut.kind = "return"
     /\ nRecords # <<>>) =>
        LET recs == RecordsOf(nData)
            rows == nOut.value.rows
        IN  /\ Len(rows) = Len(recs)
            /\ Len(nRecords) = Len(recs)
            /\ \A i \in DOMAIN nRecords : \E k \in DOMAIN rows : rows[k] = nRecords[i]
            /\ \A i \in DOMAIN nRecords :
                  LET dt == ParentTime(recs[i])
                  IN  /\ nRecords[i].datetime = dt
                      /\ "price" \in DOMAIN recs[i].d =>
                            nRecords[i].price = recs[i].d.price.n
                      /\ nRecords[i].hour =
                            IF "hour" \in DOMAIN recs[i].d THEN recs[i].d.hour.n
                            ELSE IF dt.nat THEN 0 ELSE dt.hour

-----------------------------------------------------------------------------
(* Assembly of a batch *)

\* What the task of one organisation stands for in the result.
TableOf(task) == IF task.state = "returned" THEN task.df ELSE EmptyTable

\* C23: whatever the order the fetches of a batch ended in, the result maps
\* the id of each organisation to the table of the fetch made for that
\* organisation, the empty table if it failed, and has no other key: it is
\* determined by the organisations and what their fetches ended with alone.
C23_OrderIndependent ==
    bPhase = "returned" =>
        bResult = [o \in Range(bOrgs) |->
                      TableOf(bTask[CHOOSE i \in DOMAIN bOrgs : bOrgs[i] = o])]

\* The fetches of a batch ended out of task order: the third failed before the
\* first did, and the second returned a table.
C23_Witness ==
    /\ bPhase = "returned"
    /\ Len(bOrgs) = 3
    /\ stErrors = <<bOrgs[3], bOrgs[1]>>
    /\ bOrgs[1] > bOrgs[2]
    /\ bTask[2].state = "returned" /\ bTask[2].df # EmptyTable
    /\ bResult[bOrgs[2]] = bTask[2].df

-----------------------------------------------------------------------------
(* Logging of the DataProcessor *)

\* The fields of a record for which a normalizer puts a sentinel or a default:
\* "date" when it does not parse, a value field when it and its fallback are
\* absent.
Substituted(kind, item) ==
    (IF InvalidTimestamp(item) THEN {"date"} ELSE {})
    \cup {f[1] : f \in {g \in ValueFields(kind) :
                          ~HasBreakdown(kind, item) /\ MissingBoth(item, g)}}

\* Whether a content given to a normalizer holds an item that is no dict.
HoldsNonDict(args) ==
    \E a \in DOMAIN args :
        LET content == extract_content(args[a]).v.l
        IN  \E i \in DOMAIN content : content[i].k # "dict"

\* C24 (as claimed): no data is lost silently.  When a normalizer puts a
\* sentinel or a default for a field of a record, the call does not raise
\* (unless another record makes it) and a log event names that field; when it
\* drops an item that is no dict, a log event above the info level is emitted.
C24_AsClaimed ==
    (nPhase = "done" /\ nKind \in Normalizers) =>
        LET recs == RecordsOf(nData)
        IN  /\ \A i \in DOMAIN recs : \A field \in Substituted(nKind, recs[i]) :
                  OthersBuild(nKind, recs, i) =>
                      /\ nOut.kind = "return"
                      /\ \E e \in DOMAIN nLog : nLog[e].field = field
            /\ (HoldsNonDict(nData) /\ nOut.kind = "return") =>
                  \E e \in DOMAIN nLog : nLog[e].level # "info"

-----------------------------------------------------------------------------
(* Failures that are no authorization failure *)

\* A step in which caller p receives the first response of its request, with
\* a failure status that is neither 401 nor 406.
FirstResponseFails(p) ==
    /\ pc[p] = "sent1"
    /\ Len(resp'[p]) = 1
    /\ RaisesForStatus(resp'[p][1].status)
    /\ resp'[p][1].status \notin {401, 406}

\* C25: a first response with a failure status other than 401 and 406 ends
\* the request at once: it raises with that status after its one attempt, no
\* refresh is requested, no retry is sent, and the cached ticket and expiry
\* stay as they are.
C25_FailsWithoutRetry ==
    [][\A p \in Callers :
          FirstResponseFails(p) =>
            /\ pc'[p] = "done"
            /\ outcome'[p].kind = "raise"
            /\ outcome'[p].status = resp'[p][1].status
            /\ Len(sent'[p]) = 1
            /\ forced'[p] = 0
            /\ authPosts'[p] = authPosts[p]
            /\ token' = token
            /\ expires_at' = expires_at]_vars

\* A request served from the cache was answered 404 and failed.
C25_Witness ==
    \E p \in Callers :
        /\ pc[p] = "done"
        /\ Len(resp[p]) = 1
        /\ resp[p][1].status = 404
        /\ outcome[p].kind = "raise"
        /\ outcome[p].status = 404
        /\ Len(sent[p]) = 1
        /\ authPosts[p] = 0
        /\ sent[p][1].tgt = token

-----------------------------------------------------------------------------
(* The ticket cache across failed refreshes *)

\* An answer of the authentication endpoint that makes the refresh fail: an
\* error status, or a text that is no ticket.
FailsRefresh(answer) ==
    RaisesForStatus(answer.status) \/ ~StartsWith(Strip(answer.text), Prefix)

\* The refresh that ended last failed.
LastRefreshFailed == lastAuth.status # 0 /\ FailsRefresh(lastAuth)

\* C26: a refresh that fails raises out of current() and leaves the cached
\* ticket and expiry exactly as they were; a non-forced current() called after
\* it returns the cached ticket without a request when that ticket is present
\* and unexpired, and requests a new ticket when it is absent or expired.
C26_FailedRefreshKeepsCache ==
    [][\A p \in Callers :
          /\ (RefreshEnds(p) /\ FailsRefresh(lastAuth')) =>
                /\ outcome'[p].kind = "raise"
                /\ outcome'[p].origin = "auth"
                /\ token' = token
                /\ expires_at' = expires_at
                /\ obtainedAt' = obtainedAt
          /\ (CallsCurrent(p) /\ LastRefreshFailed) =>
                IF token # NoToken /\ now < expires_at
                THEN ServedFromCache(p)
                ELSE pc'[p] = "auth1" /\ authPosts'[p] = 1]_vars

\* A refresh failed and a later call was served the ticket cached before it.
C26_Witness ==
    \E p \in Callers :
        /\ LastRefreshFailed
        /\ token # NoToken
        /\ pc[p] = "sent1"
        /\ authPosts[p] = 0
        /\ sent[p][1].tgt = token
        /\ \A q \in Callers : pc[q] \notin {"auth1", "auth2"}

-----------------------------------------------------------------------------
(* The retry *)

\* A step in which caller p sends the retry of its request.
SendsRetry(p) == Len(sent[p]) = 1 /\ Len(sent'[p]) = 2

-----------------------------------------------------------------------------
(* What current() returns *)

\* A value that passed the test of _request_new_token.
Validated(t) == t # NoToken /\ StartsWith(t, Prefix)

\* C28: current() never returns an absent ticket.  Every ticket a call of
\* current() returned, which is every ticket put in a header, passed the prefix
\* test; the cache holds nothing else than an absent or a validated ticket, and
\* a validated one whenever the clock is before the cached expiry.
C28_NeverAbsent ==
    /\ \A p \in Callers : \A i \in DOMAIN sent[p] : Validated(sent[p][i].tgt)
    /\ token # NoToken => Validated(token)
    /\ now < expires_at => Validated(token)

\* After a malformed answer of the authentication endpoint, a call that found
\* the clock before the cached expiry was returned the validated ticket.
C28_Witness ==
    \E p \in Callers :
        /\ lastAuth.text = <<"T", "G", "T">>
        /\ now > 1
        /\ now < expires_at
        /\ pc[p] = "sent1"
        /\ authPosts[p] = 0
        /\ Validated(sent[p][1].tgt)

-----------------------------------------------------------------------------
(* Properties of the methods made of several sub-fetches *)

\* C29: fetch_bilateral_contracts runs the fetches of its two sides together
\* and is all-or-nothing: as soon as a side raises the method has raised that
\* exception and has no table, whatever the other side did or does; a table is
\* returned only when both sides returned, and it is the table
\* process_bilateral_contracts builds from the two.
C29_AllOrNothing ==
    kMethod = "fetch_bilateral_contracts" =>
        /\ kPhase = "running" => \A key \in DOMAIN kSub : kSub[key].state # "raised"
        /\ \A key \in DOMAIN kSub :
              kSub[key].state = "raised" =>
                  /\ kPhase = "raised"
                  /\ kOut.kind = "raise"
                  /\ kOut.exc = kSub[key].exc
                  /\ kOut.value = <<>>
        /\ kPhase = "returned" =>
              /\ \A key \in DOMAIN kSub : kSub[key].state = "returned"
              /\ kOut \in {run.out : run \in process_bilateral_contracts(kSub["buy"].value,
                                                                         kSub["sell"].value)}

\* The sell side had returned its records when the buy side failed.
C29_Witness ==
    /\ kMethod = "fetch_bilateral_contracts"
    /\ kPhase = "raised"
    /\ kSub["sell"].state = "returned"
    /\ kSub["sell"].value.l # <<>>
    /\ kSub["buy"].state = "raised"
    /\ kOut.exc = "APIError"

\* The result a key of the returned dictionary is claimed to hold: the data of
\* a sub-fetch that returned, an empty list (uevcb_list) or an empty table for
\* a sub-fetch that raised.
ClaimedEntry(m, sub, key) ==
    IF sub[key].state = "raised"
    THEN IF key = "uevcb_list" THEN List(<<>>) ELSE EmptyFrame(<<>>)
    ELSE IF m = "fetch_dashboard_data" THEN process_dashboard_data(sub[key].value).v
    ELSE sub[key].value

\* C30 (as claimed): fetch_organization_overview and fetch_dashboard_data
\* isolate failures per sub-fetch: the call never raises, and the returned
\* dictionary holds every expected key, an empty result under each key whose
\* sub-fetch raised and the data under each key whose sub-fetch succeeded.
C30_AsClaimed ==
    kMethod \in {"fetch_organization_overview", "fetch_dashboard_data"} =>
        /\ kPhase # "raised"
        /\ kPhase = "returned" =>
              /\ kOut.kind = "return"
              /\ DOMAIN kOut.value = DOMAIN SubFetches(kMethod)
              /\ \A i \in DOMAIN SubFetches(kMethod) :
                    /\ kOut.value[i][1] = SubFetches(kMethod)[i]
                    /\ kOut.value[i][2] = ClaimedEntry(kMethod, kSub, SubFetches(kMethod)[i])

====================================================================
